---- MODULE Spec2Model ----
(***************************************************************************)
(* A model of the execution core of operate-enhanced:                      *)
(*   - StateManager over a key/value store  (operate/state/manager.py)     *)
(*   - OperationOrchestrator                (operate/core/orchestrator.py) *)
(*   - LRUCache                             (operate/core/performance.py)  *)
(*   - SecurityGuardian                     (operate/security/guardian.py) *)
(* Each component has its own specification (SpecOrch, SpecState,          *)
(* SpecCache, SpecGuard); the variables of the other components keep their *)
(* initial values there.                                                   *)
(***************************************************************************)
EXTENDS Integers, Sequences, FiniteSets, TLC

VARIABLES
    \* ---- StateManager and its store
    store,            \* MemoryStateStore._data restricted to non-snapshot keys
    persisted,        \* ids whose "_snapshots/{id}" key is in the store
    snapshots,        \* StateManager._snapshots, indexed by checkpoint id
    now,              \* the clock (datetime.utcnow), in ticks
    current_transaction, \* StateManager._current_transaction
    txn_count,        \* number of transactions begun (fresh uuid per begin)
    sm_error,         \* the exception the last StateManager call raised, or "none"
    last_call,        \* the last StateManager call, as a record
    view_at,          \* per checkpoint id: what load_state returned for every key
    direct,           \* per key written in the open transaction: what the writes, each
                      \* applied when it was issued, leave there
    commit_task,      \* the commit_transaction call suspended in a store call, if any
    open_ids,         \* the transactions begun and not yet ended by a commit or rollback
                      \* given their id
    history_saved,    \* the lists passed to save_operation_history, in call order
    history_read,     \* the last get_operation_history call: its limit and what it returned
    commit_base,      \* the store as the commit_transaction call under way found it
    \* ---- OperationOrchestrator
    call,             \* the entry point invoked and its input
    operations,       \* the submitted Operation objects (fields as submitted)
    max_parallel,     \* OperationOrchestrator.max_parallel
    retry_count,      \* Operation.retry_count
    sleeps,           \* the delays of the asyncio.sleep calls of _handle_failure, per operation
    pc,               \* where each execute_operation coroutine is suspended
    checkpoint_id,    \* ExecutionContext.checkpoint_id of the current attempt
    op_result,        \* the OperationResult held or returned for each operation
    last_error,       \* the error passed to _handle_failure
    executing,        \* OperationOrchestrator.executing (its keys)
    patterns,         \* len(OperationOrchestrator.patterns)
    dependency_graph, \* the local dependency_graph of execute_parallel
    wave,             \* ready[:max_parallel] of the wave being gathered
    results,          \* the local results list of execute_parallel
    par_pc,           \* where execute_parallel is
    par_error,        \* the exception execute_parallel raised, or "none"
    validated,        \* validate_action returned allowed=True in the current attempt
    exec_calls,       \* number of action_interface.execute_action calls per operation
    exec_failed,      \* every attempt so far ended with the executor raising or timing out
    exec_error,       \* the error with which the last executor call ended, or "none"
    seq_pc,           \* where execute_sequence is
    seq_pos,          \* execute_sequence: the index of the operation of the for loop
    suggestions,      \* what suggest_optimizations returned
    view_before,      \* per operation: what load_state returned for every key when
                      \* execute_operation was first entered for it
    \* ---- LRUCache
    cache_order,      \* the keys of LRUCache._cache in OrderedDict order (first = oldest)
    cache_entries,    \* LRUCache._cache: key -> CacheEntry
    total_size,       \* LRUCache._total_size
    read_set,         \* the keys a get has hit since the last set or clear
    cache_last,       \* the last LRUCache call: its name, key, and what it evicted
    \* ---- SecurityGuardian
    sandbox_mode,     \* SecurityGuardian.context.sandbox_mode
    sandbox_contexts, \* the SandboxContext objects: entered or not, and original_mode
    rules,            \* SecurityGuardian.rules, in list order
    confirmation_cache, \* SecurityGuardian._confirmation_cache
    audit_log,        \* len(SecurityGuardian.context.audit_log)
    validate_calls,   \* number of validate_action calls made
    validating,       \* the action of the validate_action call that is suspended, or "none"
    verdict,          \* the last validate_action call: its action and what it returned
    audit_entries,    \* context.audit_log entry by entry, for the _audit_log calls of tasks
    audit_files,      \* the files under logs/security, by name: the entries each holds
    audit_task,       \* per task, its _audit_log call: where it is, file name, text to write
    audit_count,      \* number of _audit_log calls made by the tasks
    sandbox_trace     \* the sandbox blocks entered and left, in order, with sandbox_mode before

recordVars == <<history_saved, history_read, commit_base>>
stateVars == <<store, persisted, snapshots, now, current_transaction, txn_count,
               sm_error, last_call, view_at, direct, commit_task, open_ids, recordVars>>
taskVars  == <<commit_task, open_ids>>
opVars    == <<retry_count, sleeps, pc, checkpoint_id, op_result, last_error, executing,
               patterns, validated, exec_calls, exec_failed, exec_error>>
parVars   == <<dependency_graph, wave, results, par_pc, par_error>>
entryVars == <<seq_pc, seq_pos, suggestions, view_before>>
orchVars  == <<call, operations, max_parallel, opVars, parVars, entryVars>>
cacheVars == <<cache_order, cache_entries, total_size, read_set, cache_last>>
auditVars == <<audit_entries, audit_files, audit_task, audit_count>>
guardVars == <<sandbox_mode, sandbox_contexts, rules, confirmation_cache, audit_log,
               validate_calls, validating, verdict, auditVars, sandbox_trace>>
vars      == <<stateVars, orchVars, cacheVars, guardVars>>

(***************************************************************************)
(* Bounds                                                                  *)
(***************************************************************************)
MaxTime        == 2   \* the clock runs 0..MaxTime
MaxCheckpoints == 2   \* checkpoints created by direct calls
MaxTxnOps      == 1   \* writes queued in one transaction
MaxTxns        == 1   \* transactions begun
MaxRetries     == 1   \* largest max_retries submitted
MaxParallel    == 2   \* largest max_parallel configured
MaxSize        == 2   \* LRUCache.max_size
MaxMemoryMb    == 1   \* LRUCache: max_memory_mb

(***************************************************************************)
(* Key/value store: MemoryStateStore                                       *)
(***************************************************************************)
\* StorageBackend.ttl (3600 seconds) is one tick of the clock; the five
\* minutes a cached confirmation is reused are two ticks of the guardian's
TtlTicks == 1
ConfirmWindow == 2

Keys   == {"k1", "k2"}
\* "None" is Python's None; load_state returns it for a missing key too.
Values == {"None", "v1", "v2"}

Min(a, b) == IF a < b THEN a ELSE b

Range(seq) == {seq[i] : i \in 1..Len(seq)}

\* One (value, expiry) pair of MemoryStateStore._data; expires = FALSE is expiry None.
Entry(v, ttl, t) == [value |-> v, expires |-> ttl # 0, at |-> IF ttl # 0 THEN t + ttl ELSE 0]

EmptyStore == [k \in {} |-> Entry("None", 0, 0)]

Expired(s, t, k) == k \in DOMAIN s /\ s[k].expires /\ t > s[k].at

\* MemoryStateStore.get: the value returned ...
StoreGet(s, t, k) ==
    IF k \notin DOMAIN s THEN "None"
    ELSE IF Expired(s, t, k) THEN "None"
    ELSE s[k].value

\* ... and the store it leaves (an expired entry is deleted on read).
StoreAfterGet(s, t, k) ==
    IF Expired(s, t, k) THEN [x \in DOMAIN s \ {k} |-> s[x]] ELSE s

StoreSet(s, t, k, v, ttl) ==
    [x \in DOMAIN s \cup {k} |-> IF x = k THEN Entry(v, ttl, t) ELSE s[x]]

StoreDelete(s, k) == [x \in DOMAIN s \ {k} |-> s[x]]

\* StateManager.create_checkpoint: the data captured (every key whose get is not None)
CheckpointData(s, t) ==
    [k \in {x \in DOMAIN s : StoreGet(s, t, x) # "None"} |-> s[k].value]

\* the store after the gets of create_checkpoint (expired entries are gone)
StoreAfterCheckpoint(s, t) ==
    [k \in {x \in DOMAIN s : ~Expired(s, t, x)} |-> s[k]]

\* The StateSnapshot: data, and the snapshot keys that were among all_keys.
Snapshot(s, t, snaps) == [data |-> CheckpointData(s, t), snaps |-> snaps]

\* a restore that sets the keys of snapshot.data over the store as it is
RestoreWithoutClear(snapshot) ==
    [k \in DOMAIN store \cup DOMAIN snapshot.data |->
        IF k \in DOMAIN snapshot.data THEN Entry(snapshot.data[k], 0, 0) ELSE store[k]]

\* StateManager.restore_checkpoint: every non-snapshot key deleted, then every
\* key of snapshot.data set again (without ttl).
RestoredStore(snapshot) ==
    [k \in DOMAIN snapshot.data |-> Entry(snapshot.data[k], 0, 0)]

\* What load_state returns for every key.
LoadView(s, t) == [k \in Keys |-> StoreGet(s, t, k)]

\* last_call: the call, the checkpoint or transaction id it was given, and (for
\* restore_checkpoint) the keys that load_state read differently from the
\* checkpoint just before the call, (for commit_transaction) the keys the
\* transaction wrote more than once, (for rollback_transaction) the keys of
\* the writes it discarded
NoCall == [op |-> "none", id |-> 0, changed |-> {}]
Called(op, id) == [op |-> op, id |-> id, changed |-> {}]
NoTransaction == [open |-> FALSE, id |-> 0, operations |-> <<>>]
\* no commit_transaction call is suspended
NoCommit == [active |-> FALSE, id |-> 0, pos |-> 0, ops |-> <<>>]
\* no key written; a key deleted in the transaction is kept as Deleted
NoWrites == [k \in {} |-> "None"]
Deleted == "<deleted>"

\* get_operation_history was not called
NoHistoryRead == [returned |-> FALSE, limit |-> 0, list |-> <<>>]

StateInit ==
    /\ store = EmptyStore
    /\ persisted = {}
    /\ snapshots = <<>>
    /\ now = 0
    /\ current_transaction = NoTransaction
    /\ txn_count = 0
    /\ sm_error = "none"
    /\ last_call = NoCall
    /\ view_at = <<>>
    /\ direct = NoWrites
    /\ commit_task = NoCommit
    /\ open_ids = {}
    /\ history_saved = <<>>
    /\ history_read = NoHistoryRead
    /\ commit_base = EmptyStore

\* a save_state that writes through while a transaction is open
StoreAfterSaveAlways(s, t, txn, k, v) == StoreSet(s, t, k, v, TtlTicks)

\* StateManager.save_state seen from the store: applied unless a transaction is open.
StoreAfterSave(s, t, txn, k, v) ==
    IF txn.open THEN s ELSE StoreSet(s, t, k, v, TtlTicks)

\* ... and seen from the transaction: queued when one is open.
TxnAfterSave(txn, k, v) ==
    IF txn.open THEN [txn EXCEPT !.operations = Append(@, <<"set", k, v>>)] ELSE txn

\* ... delete_state seen from the store and from the transaction
StoreAfterDelete(s, txn, k) ==
    IF txn.open THEN s ELSE StoreDelete(s, k)

TxnAfterDelete(txn, k) ==
    IF txn.open THEN [txn EXCEPT !.operations = Append(@, <<"delete", k, "None">>)] ELSE txn

\* the queued operations applied from the last to the first
RECURSIVE ApplyOperationsReversed(_, _, _)
ApplyOperationsReversed(s, t, ops) ==
    IF ops = <<>> THEN s
    ELSE ApplyOperationsReversed(IF ops[Len(ops)][1] = "set"
                                 THEN StoreSet(s, t, ops[Len(ops)][2], ops[Len(ops)][3], TtlTicks)
                                 ELSE StoreDelete(s, ops[Len(ops)][2]),
                                 t, SubSeq(ops, 1, Len(ops) - 1))

\* commit_transaction: the queued operations applied in order
RECURSIVE ApplyOperations(_, _, _)
ApplyOperations(s, t, ops) ==
    IF ops = <<>> THEN s
    ELSE ApplyOperations(IF ops[1][1] = "set"
                         THEN StoreSet(s, t, ops[1][2], ops[1][3], TtlTicks)
                         ELSE StoreDelete(s, ops[1][2]),
                         t, Tail(ops))

\* a write is accepted by the model while the open transaction has room
TxnHasRoom == current_transaction.open => Len(current_transaction.operations) < MaxTxnOps

\* the writes of the open transaction seen key by key, each applied as it is issued
DirectAfterSave(d, txn, k, v) ==
    IF txn.open THEN [x \in DOMAIN d \cup {k} |-> IF x = k THEN v ELSE d[x]] ELSE d

DirectAfterDelete(d, txn, k) ==
    IF txn.open THEN [x \in DOMAIN d \cup {k} |-> IF x = k THEN Deleted ELSE d[x]] ELSE d

\* save_state(k, v)
SaveStateCall(k, v) ==
    /\ store' = StoreAfterSave(store, now, current_transaction, k, v)
    /\ current_transaction' = TxnAfterSave(current_transaction, k, v)
    /\ direct' = DirectAfterSave(direct, current_transaction, k, v)
    /\ sm_error' = "none"
    /\ last_call' = Called("save", 0)
    /\ UNCHANGED <<persisted, snapshots, now, txn_count, view_at, recordVars>>
    /\ UNCHANGED <<orchVars, cacheVars, guardVars>>
    /\ UNCHANGED taskVars

SaveState(k, v) == TxnHasRoom /\ SaveStateCall(k, v)

\* delete_state(k)
DeleteStateCall(k) ==
    /\ store' = StoreAfterDelete(store, current_transaction, k)
    /\ current_transaction' = TxnAfterDelete(current_transaction, k)
    /\ direct' = DirectAfterDelete(direct, current_transaction, k)
    /\ sm_error' = "none"
    /\ last_call' = Called("delete", 0)
    /\ UNCHANGED <<persisted, snapshots, now, txn_count, view_at, recordVars>>
    /\ UNCHANGED <<orchVars, cacheVars, guardVars>>
    /\ UNCHANGED taskVars

DeleteState(k) == TxnHasRoom /\ DeleteStateCall(k)

LoadState(k) ==
    /\ store' = StoreAfterGet(store, now, k)
    /\ sm_error' = "none"
    /\ last_call' = Called("load", 0)
    /\ UNCHANGED <<persisted, snapshots, now, current_transaction, txn_count, view_at, direct,
                   recordVars>>
    /\ UNCHANGED <<orchVars, cacheVars, guardVars>>
    /\ UNCHANGED taskVars

\* create_checkpoint; the checkpoint id is the index of the snapshot
CreateCheckpoint ==
    /\ Len(snapshots) < MaxCheckpoints
    /\ snapshots' = Append(snapshots, Snapshot(store, now, persisted))
    /\ view_at' = Append(view_at, LoadView(store, now))
    /\ store' = StoreAfterCheckpoint(store, now)
    /\ persisted' = persisted \cup {Len(snapshots) + 1}
    /\ sm_error' = "none"
    /\ last_call' = Called("checkpoint", Len(snapshots) + 1)
    /\ UNCHANGED <<now, current_transaction, txn_count, direct, recordVars>>
    /\ UNCHANGED <<orchVars, cacheVars, guardVars>>
    /\ UNCHANGED taskVars

\* restore_checkpoint(id); an id that is neither in _snapshots nor persisted
\* raises ValueError before anything is touched
RestoreCheckpoint(id) ==
    /\ IF id \in DOMAIN snapshots
       THEN /\ store' = RestoredStore(snapshots[id])
            /\ persisted' = persisted \cup snapshots[id].snaps
            /\ sm_error' = "none"
            /\ last_call' = [op |-> "restore", id |-> id,
                             changed |-> {k \in Keys : StoreGet(store, now, k) # view_at[id][k]}]
       ELSE /\ id \notin persisted
            /\ sm_error' = "ValueError"
            /\ last_call' = Called("restore", id)
            /\ UNCHANGED <<store, persisted>>
    /\ UNCHANGED <<snapshots, now, current_transaction, txn_count, view_at, direct, recordVars>>
    /\ UNCHANGED <<orchVars, cacheVars, guardVars>>
    /\ UNCHANGED taskVars

\* begin_transaction; the transaction id is the number of the transaction
BeginTransactionCall ==
    /\ IF current_transaction.open
       THEN /\ sm_error' = "RuntimeError"
            /\ UNCHANGED <<current_transaction, txn_count, direct, open_ids>>
       ELSE /\ current_transaction' = [open |-> TRUE, id |-> txn_count + 1, operations |-> <<>>]
            /\ txn_count' = txn_count + 1
            /\ direct' = NoWrites
            /\ open_ids' = open_ids \cup {txn_count + 1}
            /\ sm_error' = "none"
    /\ last_call' = Called("begin", 0)
    /\ UNCHANGED <<store, persisted, snapshots, now, view_at, commit_task, recordVars>>
    /\ UNCHANGED <<orchVars, cacheVars, guardVars>>

BeginTransaction ==
    /\ current_transaction.open \/ txn_count < MaxTxns
    /\ BeginTransactionCall

\* the keys a queue of operations writes more than once
WrittenTwice(ops) ==
    {k \in Keys : Cardinality({i \in DOMAIN ops : ops[i][2] = k}) >= 2}

CommitTransaction(id) ==
    /\ IF ~current_transaction.open \/ current_transaction.id # id
       THEN /\ sm_error' = "ValueError"
            /\ last_call' = Called("commit", id)
            /\ UNCHANGED <<store, current_transaction, direct, open_ids>>
       ELSE /\ store' = ApplyOperations(store, now, current_transaction.operations)
            /\ current_transaction' = NoTransaction
            /\ direct' = NoWrites
            /\ open_ids' = open_ids \ {id}
            /\ sm_error' = "none"
            /\ last_call' = [op |-> "commit", id |-> id,
                             changed |-> WrittenTwice(current_transaction.operations)]
    /\ UNCHANGED <<persisted, snapshots, now, txn_count, view_at, commit_task, recordVars>>
    /\ UNCHANGED <<orchVars, cacheVars, guardVars>>

RollbackTransaction(id) ==
    /\ IF ~current_transaction.open \/ current_transaction.id # id
       THEN /\ sm_error' = "ValueError"
            /\ last_call' = Called("rollback", id)
            /\ UNCHANGED <<current_transaction, direct, open_ids, commit_task>>
       ELSE /\ current_transaction' = NoTransaction
            /\ direct' = NoWrites
            /\ open_ids' = open_ids \ {id}
            /\ commit_task' = IF commit_task.active /\ commit_task.id = id
                               THEN [commit_task EXCEPT !.ops = current_transaction.operations]
                               ELSE commit_task
            /\ sm_error' = "none"
            /\ last_call' = [op |-> "rollback", id |-> id, changed |-> DOMAIN direct]
    /\ UNCHANGED <<store, persisted, snapshots, now, txn_count, view_at, recordVars>>
    /\ UNCHANGED <<orchVars, cacheVars, guardVars>>

\* time passes
Tick ==
    /\ now < MaxTime
    /\ now' = now + 1
    /\ UNCHANGED <<store, persisted, snapshots, current_transaction, txn_count,
                   sm_error, last_call, view_at, direct, recordVars>>
    /\ UNCHANGED <<orchVars, cacheVars, guardVars>>
    /\ UNCHANGED taskVars

(***************************************************************************)
(* LRUCache.  Every method body runs under LRUCache._lock and awaits        *)
(* nothing that suspends, so a call is one step.  CacheEntry.hit_count      *)
(* only feeds get_stats and is left out.                                    *)
(***************************************************************************)
MaxMemoryBytes == MaxMemoryMb * 1024 * 1024

\* one key more than the cache holds
CacheKeys == 1..(MaxSize + 1)

\* The values cached: a str of so many encoded bytes, or an object that is
\* neither bytes, str, list nor dict.
StrOf(n) == [kind |-> "str", bytes |-> n]
Object   == [kind |-> "object", bytes |-> 0]

\* an object, a str of which two do not fit in the budget, a str that alone
\* does not fit
CacheValues == {Object, StrOf(MaxMemoryBytes \div 2 + 1), StrOf(MaxMemoryBytes + 1)}

\* ttl arguments of set: None (0) or one tick
CacheTtls == {0, 1}

DefaultSize == 64

\* LRUCache._estimate_size
EstimateSize(v) == IF v.kind = "str" THEN v.bytes ELSE DefaultSize

CacheEntry(v, t, ttl) ==
    [value |-> v, timestamp |-> t, size_bytes |-> EstimateSize(v), ttl |-> ttl]

\* CacheEntry.is_expired
IsExpired(e, t) == IF e.ttl = 0 THEN FALSE ELSE t > e.timestamp + e.ttl

EmptyCache == [k \in {} |-> CacheEntry(Object, 0, 0)]

\* OrderedDict assignment: a key already present keeps its position, a new
\* one is appended
AssignKey(order, k) == IF k \in Range(order) THEN order ELSE Append(order, k)

\* an order that move_to_end leaves as it is
MoveToEndSkipped(order, k) == order

\* OrderedDict.move_to_end(k)
MoveToEnd(order, k) == SelectSeq(order, LAMBDA x : x # k) \o <<k>>

DropKey(order, k) == SelectSeq(order, LAMBDA x : x # k)

\* set without the subtraction of the size of the entry it replaces
SizeHeldForgotten(entries, k) == 0

\* the size_bytes set subtracts for the entry it replaces
SizeHeld(entries, k) == IF k \in DOMAIN entries THEN entries[k].size_bytes ELSE 0

\* LRUCache._evict_if_needed: popitem(last=False) while over either bound
RECURSIVE EvictIfNeeded(_, _, _, _)
EvictIfNeeded(order, entries, total, evicted) ==
    IF (Len(order) > MaxSize \/ total > MaxMemoryBytes) /\ order # <<>>
    THEN EvictIfNeeded(Tail(order),
                       [k \in DOMAIN entries \ {Head(order)} |-> entries[k]],
                       total - entries[Head(order)].size_bytes,
                       evicted \cup {Head(order)})
    ELSE [order |-> order, entries |-> entries, total |-> total, evicted |-> evicted]

\* cache_last: the call, its key, and for set: whether the key was new, whether
\* the cache held max_size entries, the keys held that no get had hit since
\* the previous set, and the keys evicted
NoCacheCall == [op |-> "none", key |-> 0, fresh |-> FALSE, full |-> FALSE,
                unread |-> {}, evicted |-> {}]
CacheCalled(op, k) == [NoCacheCall EXCEPT !.op = op, !.key = k]

CacheInit ==
    /\ cache_order = <<>>
    /\ cache_entries = EmptyCache
    /\ total_size = 0
    /\ read_set = {}
    /\ cache_last = NoCacheCall

\* LRUCache.get(k)
CacheGet(k) ==
    /\ IF k \notin DOMAIN cache_entries
       THEN UNCHANGED <<cache_order, cache_entries, total_size, read_set>>
       ELSE IF IsExpired(cache_entries[k], now)
       THEN /\ cache_order' = DropKey(cache_order, k)
            /\ cache_entries' = [x \in DOMAIN cache_entries \ {k} |-> cache_entries[x]]
            /\ total_size' = total_size - cache_entries[k].size_bytes
            /\ read_set' = read_set \ {k}
       ELSE /\ cache_order' = MoveToEnd(cache_order, k)
            /\ read_set' = read_set \cup {k}
            /\ UNCHANGED <<cache_entries, total_size>>
    /\ cache_last' = CacheCalled("get", k)
    /\ UNCHANGED <<stateVars, orchVars, guardVars>>

\* what set leaves after inserting the entry and evicting
AfterSet(k, v, ttl) ==
    EvictIfNeeded(MoveToEnd(AssignKey(cache_order, k), k),
                  [x \in DOMAIN cache_entries \cup {k} |->
                      IF x = k THEN CacheEntry(v, now, ttl) ELSE cache_entries[x]],
                  total_size - SizeHeld(cache_entries, k) + EstimateSize(v),
                  {})

\* LRUCache.set(k, v, ttl)
CacheSet(k, v, ttl) ==
    LET after == AfterSet(k, v, ttl)
    IN  /\ cache_order' = after.order
        /\ cache_entries' = after.entries
        /\ total_size' = after.total
        /\ read_set' = {}
        /\ cache_last' = [op |-> "set", key |-> k,
                          fresh |-> k \notin DOMAIN cache_entries,
                          full |-> Len(cache_order) = MaxSize,
                          unread |-> Range(cache_order) \ read_set,
                          evicted |-> after.evicted]
        /\ UNCHANGED <<stateVars, orchVars, guardVars>>

\* LRUCache.clear
CacheClear ==
    /\ cache_order' = <<>>
    /\ cache_entries' = EmptyCache
    /\ total_size' = 0
    /\ read_set' = {}
    /\ cache_last' = CacheCalled("clear", 0)
    /\ UNCHANGED <<stateVars, orchVars, guardVars>>

(***************************************************************************)
(* SecurityGuardian.  Texts are tuples of characters; a regular expression  *)
(* is kept as its source text and compiled when it is searched.             *)
(***************************************************************************)
UpperCase == <<"A", "B", "C", "D", "E", "F", "G", "H", "I", "J", "K", "L", "M",
               "N", "O", "P", "Q", "R", "S", "T", "U", "V", "W", "X", "Y", "Z">>
LowerCase == <<"a", "b", "c", "d", "e", "f", "g", "h", "i", "j", "k", "l", "m",
               "n", "o", "p", "q", "r", "s", "t", "u", "v", "w", "x", "y", "z">>

\* re.IGNORECASE: characters are compared in lower case
Lower(c) ==
    IF \E i \in 1..Len(UpperCase) : UpperCase[i] = c
    THEN LowerCase[CHOOSE i \in 1..Len(UpperCase) : UpperCase[i] = c]
    ELSE c

\* the characters \s matches
Spaces == {" ", "\t", "\n"}

\* the characters re.escape puts a backslash before, among those used here
EscapedChars == {" ", "-", "|", "*", "?", "[", "]", "\\", "."}

\* re.escape
RECURSIVE Escape(_)
Escape(text) ==
    IF text = <<>> THEN <<>>
    ELSE (IF text[1] \in EscapedChars THEN <<"\\", text[1]>> ELSE <<text[1]>>)
         \o Escape(Tail(text))

\* "|".join(texts)
RECURSIVE JoinAlternatives(_)
JoinAlternatives(texts) ==
    IF Len(texts) = 0 THEN <<>>
    ELSE IF Len(texts) = 1 THEN texts[1]
    ELSE texts[1] \o <<"|">> \o JoinAlternatives(Tail(texts))

\* the alternatives of a pattern: its source split at every unescaped |
RECURSIVE SplitAlternatives(_, _)
SplitAlternatives(src, cur) ==
    IF src = <<>> THEN <<cur>>
    ELSE IF src[1] = "\\" /\ Len(src) >= 2
    THEN SplitAlternatives(SubSeq(src, 3, Len(src)), cur \o <<src[1], src[2]>>)
    ELSE IF src[1] = "|"
    THEN <<cur>> \o SplitAlternatives(Tail(src), <<>>)
    ELSE SplitAlternatives(Tail(src), Append(cur, src[1]))

\* the first item of an alternative: the set of characters it matches and the
\* number of source characters it takes (\s, an escaped character, a [class],
\* or a plain character)
FirstItem(src) ==
    IF src[1] = "\\" /\ Len(src) >= 2
    THEN [class |-> IF src[2] = "s" THEN Spaces ELSE {Lower(src[2])}, len |-> 2]
    ELSE IF src[1] = "[" /\ \E j \in 2..Len(src) : src[j] = "]"
    THEN LET close == CHOOSE j \in 2..Len(src) :
                         src[j] = "]" /\ \A m \in 2..(j - 1) : src[m] # "]"
         IN  [class |-> {Lower(src[m]) : m \in 2..(close - 1)}, len |-> close]
    ELSE [class |-> {Lower(src[1])}, len |-> 1]

\* an alternative as a sequence of atoms: a character set and a quantifier
RECURSIVE ParseAtoms(_)
ParseAtoms(src) ==
    IF src = <<>> THEN <<>>
    ELSE LET item  == FirstItem(src)
             rest  == SubSeq(src, item.len + 1, Len(src))
             quant == IF rest # <<>> /\ rest[1] \in {"*", "?"} THEN rest[1] ELSE "1"
         IN  <<[class |-> item.class, quant |-> quant]>>
             \o ParseAtoms(IF quant = "1" THEN rest ELSE Tail(rest))

\* re.compile(pattern, re.IGNORECASE)
Compile(src) ==
    LET alts == SplitAlternatives(src, <<>>)
    IN  [i \in 1..Len(alts) |-> ParseAtoms(alts[i])]

\* the atoms match the text from position i on (with backtracking)
RECURSIVE MatchHere(_, _, _)
MatchHere(atoms, text, i) ==
    IF atoms = <<>> THEN TRUE
    ELSE LET a    == Head(atoms)
             here == i <= Len(text) /\ Lower(text[i]) \in a.class
         IN  CASE a.quant = "1" -> here /\ MatchHere(Tail(atoms), text, i + 1)
               [] a.quant = "?" -> \/ MatchHere(Tail(atoms), text, i)
                                   \/ here /\ MatchHere(Tail(atoms), text, i + 1)
               [] OTHER         -> \/ MatchHere(Tail(atoms), text, i)
                                   \/ here /\ MatchHere(atoms, text, i + 1)

\* re.match: the pattern matches at the start of the text
ReMatch(pattern, text) ==
    LET compiled == Compile(pattern)
    IN  \E n \in 1..Len(compiled) : MatchHere(compiled[n], text, 1)

\* re.search(pattern, text, re.IGNORECASE) finds a match
ReSearch(pattern, text) ==
    LET compiled == Compile(pattern)
    IN  \E n \in 1..Len(compiled), i \in 1..(Len(text) + 1) :
           MatchHere(compiled[n], text, i)

\* ---- SecurityConfig defaults
BlacklistedCommands == <<<<"r", "m", " ", "-", "r", "f", " ", "/">>, <<"f", "o", "r", "m", "a", "t">>, <<"d", "e", "l", " ", "/", "s", " ", "/", "q">>>>

SensitivePatterns == <<<<"p", "a", "s", "s", "w", "o", "r", "d", "\\", "s", "*", "=">>,
                       <<"a", "p", "i", "[", "_", "-", "]", "?", "k", "e", "y", "\\", "s", "*", "=">>,
                       <<"s", "e", "c", "r", "e", "t", "\\", "s", "*", "=">>,
                       <<"t", "o", "k", "e", "n", "\\", "s", "*", "=">>,
                       <<"p", "r", "i", "v", "a", "t", "e", "[", "_", "-", "]", "?", "k", "e", "y">>>>

\* the same patterns as Python prints them in a message
SensitivePatternTexts == <<"password\\s*=", "api[_-]?key\\s*=", "secret\\s*=",
                           "token\\s*=", "private[_-]?key">>

RequireConfirmation == {"system_commands", "file_deletion", "network_requests"}

MaxFileSize == 100000000
AuditFlushAt == 100

\* ---- rules, by id
NoConditions == [max_size |-> 0]

SensitiveRuleIds == <<"sensitive_pattern_1", "sensitive_pattern_2", "sensitive_pattern_3",
                      "sensitive_pattern_4", "sensitive_pattern_5">>

\* _load_default_rules, in order
DefaultRules == <<"sys_cmd_blacklist">> \o SensitiveRuleIds \o <<"file_size_limit">>

\* rules a caller adds: a blacklist of `rm -rf /` for every action type, and
\* one for TYPE actions only
CustomRules == {"custom_rm", "custom_rm_type"}

RmPattern == <<"r", "m", " ", "-", "r", "f", " ", "/">>

Rule(id) ==
    CASE id = "sys_cmd_blacklist" ->
           [id |-> id, type |-> "BLACKLIST", actions |-> {"EXECUTE"},
            pattern |-> JoinAlternatives([i \in 1..Len(BlacklistedCommands) |->
                                             Escape(BlacklistedCommands[i])]),
            pattern_text |-> "", conditions |-> NoConditions,
            message |-> "Dangerous system command detected"]
      [] id = "file_size_limit" ->
           [id |-> id, type |-> "PERMISSION", actions |-> {"TYPE"}, pattern |-> <<>>,
            pattern_text |-> "", conditions |-> [max_size |-> MaxFileSize],
            message |-> "File size exceeds limit"]
      [] id = "custom_rm" ->
           [id |-> id, type |-> "BLACKLIST", actions |-> {}, pattern |-> RmPattern,
            pattern_text |-> "rm -rf /", conditions |-> NoConditions,
            message |-> "Custom blacklist"]
      [] id = "custom_rm_type" ->
           [id |-> id, type |-> "BLACKLIST", actions |-> {"TYPE"}, pattern |-> RmPattern,
            pattern_text |-> "rm -rf /", conditions |-> NoConditions,
            message |-> "Custom blacklist"]
      [] OTHER ->
           [id |-> id, type |-> "PATTERN", actions |-> {},
            pattern |-> SensitivePatterns[CHOOSE i \in 1..Len(SensitiveRuleIds) :
                                              SensitiveRuleIds[i] = id],
            pattern_text |-> SensitivePatternTexts[CHOOSE i \in 1..Len(SensitiveRuleIds) :
                                                       SensitiveRuleIds[i] = id],
            conditions |-> NoConditions,
            message |-> "Potential sensitive data exposure"]

\* ---- the actions validated; value <<>> is a value that is None or empty,
\* size 0 a metadata without "size", texts the str() of the metadata values
NoMetadata == [size |-> 0, file_operation |-> "none", network_request |-> FALSE,
               texts |-> <<>>]

ActionTable ==
    [exec_rm     |-> [type |-> "EXECUTE", value |-> <<"r", "m", " ", "-", "r", "f", " ", "/">>, metadata |-> NoMetadata],
     exec_ls     |-> [type |-> "EXECUTE", value |-> <<"l", "s">>, metadata |-> NoMetadata],
     github_rm   |-> [type |-> "GITHUB", value |-> <<"a", ";", "r", "m", " ", "-", "r", "f", " ", "/", "b">>,
                      metadata |-> [NoMetadata EXCEPT !.network_request = TRUE,
                                                      !.texts = <<<<"T", "r", "u", "e">>>>]],
     type_token  |-> [type |-> "TYPE", value |-> <<"T", "o", "k", "e", "n", " ", "=", " ", "x">>, metadata |-> NoMetadata],
     type_delete |-> [type |-> "TYPE", value |-> <<>>,
                      metadata |-> [NoMetadata EXCEPT !.file_operation = "delete",
                                                      !.texts = <<<<"d", "e", "l", "e", "t", "e">>>>]],
     type_big    |-> [type |-> "TYPE", value |-> <<"l", "s">>,
                      metadata |-> [NoMetadata EXCEPT !.size = 2 * MaxFileSize,
                                                      !.texts = <<<<"2", "0", "0", "0", "0", "0", "0", "0", "0">>>>]],
     click       |-> [type |-> "CLICK", value |-> <<>>, metadata |-> NoMetadata]]

ActionNames == DOMAIN ActionTable

\* ---- the bounds of the guardian's environment
MaxValidations == 2   \* validate_action calls made
MaxContexts    == 1   \* SandboxContext objects in use
MaxCustomRules == 1   \* rules added beyond the default ones
MaxAuditTasks  == 2   \* tasks that call _audit_log
MaxBlocks      == 2   \* sandbox blocks that may be open together
MaxBlockSteps  == 6   \* entries to and exits from sandbox blocks that are followed
MaxSaves       == 3   \* save_operation_history calls made
MaxBatch       == 2   \* results passed in one save_operation_history call
MaxLimit       == 3   \* the limit given to get_operation_history
MaxAuditEntries == 3  \* _audit_log calls made by the tasks

\* ---- validate_action

\* _audit_log: the entry is appended; at AuditFlushAt entries the log is
\* written out and cleared
AuditAppend(n) == IF n + 1 >= AuditFlushAt THEN 0 ELSE n + 1

\* the privileged set with GITHUB forgotten
PrivilegedTypesExecuteOnly == {"EXECUTE"}

\* the action types refused in sandbox mode
PrivilegedTypes == {"EXECUTE", "GITHUB"}

\* _check_permission
CheckPermission(a, rule) ==
    ~(rule.conditions.max_size # 0 /\ a.metadata.size # 0
      /\ a.metadata.size > rule.conditions.max_size)

NoViolation == "None"

\* _check_rule without the test of the action type
CheckRuleAnyType(a, rule) ==
    CASE rule.type = "BLACKLIST" ->
           IF rule.pattern # <<>> /\ a.value # <<>> /\ ReSearch(rule.pattern, a.value)
           THEN "Blacklisted pattern matched" ELSE NoViolation
      [] rule.type = "PATTERN" ->
           IF rule.pattern # <<>>
              /\ \E text \in (IF a.value # <<>> THEN {a.value} ELSE {})
                             \cup Range(a.metadata.texts) :
                    ReSearch(rule.pattern, text)
           THEN "Sensitive pattern detected: " \o rule.pattern_text ELSE NoViolation
      [] rule.type = "PERMISSION" ->
           IF ~CheckPermission(a, rule) THEN "Permission check failed" ELSE NoViolation
      [] OTHER -> NoViolation

\* _check_rule: the violation returned, or None
CheckRule(a, rule) ==
    IF rule.actions # {} /\ a.type \notin rule.actions THEN NoViolation
    ELSE CASE rule.type = "BLACKLIST" ->
                IF rule.pattern # <<>> /\ a.value # <<>> /\ ReSearch(rule.pattern, a.value)
                THEN "Blacklisted pattern matched" ELSE NoViolation
           [] rule.type = "PATTERN" ->
                IF rule.pattern # <<>>
                   /\ \E text \in (IF a.value # <<>> THEN {a.value} ELSE {})
                                  \cup Range(a.metadata.texts) :
                         ReSearch(rule.pattern, text)
                THEN "Sensitive pattern detected: " \o rule.pattern_text ELSE NoViolation
           [] rule.type = "PERMISSION" ->
                IF ~CheckPermission(a, rule) THEN "Permission check failed" ELSE NoViolation
           [] OTHER -> NoViolation

\* _categorize_action
CategorizeAction(a) ==
    CASE a.type = "EXECUTE" -> "system_commands"
      [] a.type = "TYPE" /\ a.metadata.file_operation = "delete" -> "file_deletion"
      [] a.type = "GITHUB" /\ a.metadata.network_request -> "network_requests"
      [] OTHER -> "general"

\* _requires_confirmation
RequiresConfirmation(a) == CategorizeAction(a) \in RequireConfirmation

\* the test of the cached answer's age with the boundary on the wrong side
CachedAnswerValidInclusive(name) ==
    /\ name \in DOMAIN confirmation_cache
    /\ now - confirmation_cache[name].time <= ConfirmWindow

\* request_permission: a cached answer younger than the window is reused,
\* otherwise the answer is "not sandbox_mode".  The cache key is made of the
\* type, target and value of the action; the actions of ActionTable differ in
\* these, so the name of the action stands for the key
CachedAnswerValid(name) ==
    /\ name \in DOMAIN confirmation_cache
    /\ now - confirmation_cache[name].time < ConfirmWindow

PermissionAnswer(name) ==
    IF CachedAnswerValid(name) THEN confirmation_cache[name].result ELSE ~sandbox_mode

CacheAfterRequest(name) ==
    IF CachedAnswerValid(name) THEN confirmation_cache
    ELSE [k \in DOMAIN confirmation_cache \cup {name} |->
             IF k = name THEN [result |-> ~sandbox_mode, time |-> now]
             ELSE confirmation_cache[k]]

\* what request_permission finds in the cache under the key: whether there is
\* an entry, its answer and its age
CacheFound(name) ==
    IF name \in DOMAIN confirmation_cache
    THEN [hit |-> TRUE, result |-> confirmation_cache[name].result,
          age |-> now - confirmation_cache[name].time]
    ELSE [hit |-> FALSE, result |-> FALSE, age |-> 0]

\* _check_rule for every action and rule of the model
RuleIds == Range(DefaultRules) \cup CustomRules

Violation == [name \in ActionNames, id \in RuleIds |-> CheckRule(ActionTable[name], Rule(id))]

\* the loop over self.rules: the position of the first rule the action
\* violates, from position i on (0: none)
RECURSIVE FirstViolated(_, _)
FirstViolated(name, i) ==
    IF i > Len(rules) THEN 0
    ELSE IF Violation[name, rules[i]] # NoViolation THEN i
    ELSE FirstViolated(name, i + 1)

NoVerdict == [action |-> "none", returned |-> FALSE, sandbox |-> FALSE, rules |-> <<>>,
              allowed |-> FALSE, reason |-> "None", rule |-> "none", asked |-> FALSE,
              logged |-> <<>>, found |-> [hit |-> FALSE, result |-> FALSE, age |-> 0]]

\* the entry _audit_log appends for an event of the action: the event, the
\* action and sandbox_mode as it is then
AuditEntry(event, name) == [event |-> event, action |-> name, sandbox_mode |-> sandbox_mode]

\* validate_action from the sandbox check to its return: what it returns, with
\* sandbox_mode and rules as it read them, the audit entries it appended on
\* that way (logged) and what request_permission found in the cache (found)
Decide(name) ==
    LET a     == ActionTable[name]
        first == FirstViolated(name, 1)
        base  == [NoVerdict EXCEPT !.action = name, !.returned = TRUE,
                                   !.sandbox = sandbox_mode, !.rules = rules]
    IN  IF sandbox_mode /\ a.type \in PrivilegedTypes
        THEN [base EXCEPT !.reason = "Action not allowed in sandbox mode"]
        ELSE IF first # 0
        THEN [base EXCEPT !.rule = rules[first],
                          !.reason = Rule(rules[first]).message \o ": "
                                     \o Violation[name, rules[first]],
                          !.logged = <<AuditEntry("validation_failed", name)>>]
        ELSE IF RequiresConfirmation(a) /\ ~PermissionAnswer(name)
        THEN [base EXCEPT !.asked = TRUE, !.reason = "User denied permission",
                          !.found = CacheFound(name),
                          !.logged = <<AuditEntry("user_denied", name)>>]
        ELSE [base EXCEPT !.asked = RequiresConfirmation(a), !.allowed = TRUE,
                          !.found = IF RequiresConfirmation(a) THEN CacheFound(name)
                                    ELSE NoVerdict.found,
                          !.logged = <<AuditEntry("validation_passed", name)>>]

\* the audit entries written after "validation_started": none on the sandbox
\* refusal, one on every other return
AuditAfterDecision(v, n) ==
    IF v.logged = <<>> THEN n ELSE AuditAppend(n)

\* the sandbox check and everything after it
Finalize(name) ==
    /\ verdict' = Decide(name)
    /\ confirmation_cache' = IF Decide(name).asked THEN CacheAfterRequest(name)
                             ELSE confirmation_cache

\* the SandboxContext objects there are
ContextSlots == 1..(IF MaxContexts > MaxBlocks THEN MaxContexts ELSE MaxBlocks)

\* no task is inside _audit_log; the entries of the log are numbered in the
\* order they were appended
AuditTasks == 1..MaxAuditTasks

NoAuditTask == [pc |-> "idle", name |-> 0, content |-> <<>>]

AuditStart ==
    /\ audit_entries = [i \in 1..audit_log |-> i]
    /\ audit_files = [f \in {} |-> <<>>]
    /\ audit_task = [t \in AuditTasks |-> NoAuditTask]
    /\ audit_count = 0

GuardInit ==
    /\ sandbox_mode \in BOOLEAN
    /\ sandbox_contexts = [i \in ContextSlots |-> [entered |-> FALSE, original_mode |-> FALSE]]
    /\ sandbox_trace = <<>>
    /\ rules = DefaultRules
    /\ confirmation_cache = [k \in {} |-> [result |-> FALSE, time |-> 0]]
    /\ audit_log \in {0, AuditFlushAt - 1}
    /\ validate_calls = 0
    /\ validating = "none"
    /\ verdict = NoVerdict
    /\ AuditStart

\* validate_action(a) is called.  Writing the audit log out suspends the
\* call; otherwise it runs to its return
ValidateAction(name) ==
    /\ validate_calls < MaxValidations
    /\ validating = "none"
    /\ validate_calls' = validate_calls + 1
    /\ IF AuditAppend(audit_log) = 0
       THEN /\ validating' = name
            /\ audit_log' = 0
            /\ verdict' = [NoVerdict EXCEPT !.action = name]
            /\ UNCHANGED confirmation_cache
       ELSE /\ Finalize(name)
            /\ audit_log' = AuditAfterDecision(Decide(name), AuditAppend(audit_log))
            /\ UNCHANGED validating
    /\ UNCHANGED <<sandbox_mode, sandbox_contexts, rules, auditVars, sandbox_trace>>
    /\ UNCHANGED <<stateVars, orchVars, cacheVars>>

\* the audit log is written: the suspended validate_action goes on
ValidateResume ==
    /\ validating # "none"
    /\ Finalize(validating)
    /\ audit_log' = AuditAfterDecision(Decide(validating), audit_log)
    /\ validating' = "none"
    /\ UNCHANGED <<sandbox_mode, sandbox_contexts, rules, validate_calls, auditVars,
                   sandbox_trace>>
    /\ UNCHANGED <<stateVars, orchVars, cacheVars>>

\* add_rule(rule)
AddRule(id) ==
    /\ Len(rules) < Len(DefaultRules) + MaxCustomRules
    /\ rules' = Append(rules, id)
    /\ UNCHANGED <<sandbox_mode, sandbox_contexts, confirmation_cache, audit_log,
                   validate_calls, validating, verdict, auditVars, sandbox_trace>>
    /\ UNCHANGED <<stateVars, orchVars, cacheVars>>

\* remove_rule(rule_id)
RemoveRule(id) ==
    /\ rules' = SelectSeq(rules, LAMBDA r : r # id)
    /\ UNCHANGED <<sandbox_mode, sandbox_contexts, confirmation_cache, audit_log,
                   validate_calls, validating, verdict, auditVars, sandbox_trace>>
    /\ UNCHANGED <<stateVars, orchVars, cacheVars>>

\* async with guardian.sandbox_mode(): __aenter__
EnterSandboxCall(i) ==
    /\ ~sandbox_contexts[i].entered
    /\ sandbox_contexts' = [sandbox_contexts EXCEPT
                               ![i] = [entered |-> TRUE, original_mode |-> sandbox_mode]]
    /\ sandbox_mode' = TRUE
    /\ UNCHANGED <<rules, confirmation_cache, audit_log, validate_calls, validating,
                   verdict, auditVars>>
    /\ UNCHANGED <<stateVars, orchVars, cacheVars>>

EnterSandbox(i) == EnterSandboxCall(i) /\ UNCHANGED sandbox_trace

\* __aexit__ that leaves sandbox_mode off whatever it was before the block
ExitSandboxCallSwitchesOff(i) ==
    /\ sandbox_contexts[i].entered
    /\ sandbox_mode' = FALSE
    /\ sandbox_contexts' = [sandbox_contexts EXCEPT
                               ![i] = [entered |-> FALSE, original_mode |-> FALSE]]
    /\ UNCHANGED <<rules, confirmation_cache, audit_log, validate_calls, validating,
                   verdict, auditVars>>
    /\ UNCHANGED <<stateVars, orchVars, cacheVars>>

\* ... and __aexit__
ExitSandboxCall(i) ==
    /\ sandbox_contexts[i].entered
    /\ sandbox_mode' = sandbox_contexts[i].original_mode
    /\ sandbox_contexts' = [sandbox_contexts EXCEPT
                               ![i] = [entered |-> FALSE, original_mode |-> FALSE]]
    /\ UNCHANGED <<rules, confirmation_cache, audit_log, validate_calls, validating,
                   verdict, auditVars>>
    /\ UNCHANGED <<stateVars, orchVars, cacheVars>>

ExitSandbox(i) == ExitSandboxCall(i) /\ UNCHANGED sandbox_trace

\* the guardian as configured by default, with an empty audit log
GuardIdle == GuardInit /\ sandbox_mode = TRUE /\ audit_log = 0

(***************************************************************************)
(* OperationOrchestrator                                                   *)
(***************************************************************************)
\* The operations of a batch, in list order; an operation's id is its name.
OpList == <<"A", "B", "C">>
Ops == {OpList[i] : i \in 1..Len(OpList)}
\* An id that is not the id of any operation of the batch.
Foreign == "X"

NoCheckpoint == 0
NoResult == [operation_id |-> "none", status |-> "NONE", error |-> "none"]
Result(o, status, error) == [operation_id |-> o, status |-> status, error |-> error]

TerminalStatuses == {"SUCCESS", "FAILED", "CANCELLED", "ROLLED_BACK"}

\* The statuses the executors of the repository return (ActionHandler, GitHubManager).
ExecutorStatuses == {"SUCCESS", "FAILED"}

\* Outcomes of one action_interface.execute_action call, bounded by wait_for
\* when the operation has a timeout.
ExecutorOutcomes(o) ==
    {"SUCCESS", "FAILED", "raise"} \cup (IF operations[o].timeout THEN {"timeout"} ELSE {})


\* The id of the Action an operation wraps; the executors of the repository
\* put it in the operation_id of the result they return.
ActionId(o) == CASE o = "A" -> "a" [] o = "B" -> "b" [] OTHER -> "c"

EnableLearning == TRUE
LearnSaveEvery == 10

\* ------------------------------------------------------------------------
\* fragments of execute_operation / _handle_failure

\* the coroutine moves on; nothing is returned yet
Goto(o, to) ==
    /\ pc' = [pc EXCEPT ![o] = to]
    /\ UNCHANGED <<retry_count, sleeps, op_result, last_error>>

\* execute_operation returns res
Finish(o, res) ==
    /\ pc' = [pc EXCEPT ![o] = "done"]
    /\ op_result' = [op_result EXCEPT ![o] = res]
    /\ last_error' = [last_error EXCEPT ![o] = "none"]
    /\ UNCHANGED <<retry_count, sleeps>>

\* the ExecutionContext of the attempt is dropped when execute_operation returns
KeepContext(o) ==
    /\ checkpoint_id' = [checkpoint_id EXCEPT ![o] = IF pc'[o] = "done" THEN NoCheckpoint ELSE @]
    /\ validated' = [validated EXCEPT ![o] = IF pc'[o] = "done" THEN FALSE ELSE @]

\* a new ExecutionContext for each operation of W: execute_operation is entered
EnterAttempt(W) ==
    /\ pc' = [o \in Ops |-> IF o \in W THEN "validate" ELSE pc[o]]
    /\ checkpoint_id' = [o \in Ops |-> IF o \in W THEN NoCheckpoint ELSE checkpoint_id[o]]
    /\ validated' = [o \in Ops |-> IF o \in W THEN FALSE ELSE validated[o]]
    /\ op_result' = [o \in Ops |-> IF o \in W THEN NoResult ELSE op_result[o]]
    /\ UNCHANGED <<retry_count, sleeps, last_error, executing, patterns, exec_calls, exec_failed, exec_error>>

\* _execute_action up to the await of action_interface.execute_action
InvokeExecutor(o) ==
    /\ pc' = [pc EXCEPT ![o] = "inflight"]
    /\ executing' = executing \cup {o}
    /\ exec_calls' = [exec_calls EXCEPT ![o] = @ + 1]
    /\ UNCHANGED <<retry_count, sleeps, op_result, last_error>>

\* _handle_failure without the retry branch
HandleFailureNoRetry(o, error) ==
    IF operations[o].rollback /\ checkpoint_id[o] # NoCheckpoint
    THEN /\ pc' = [pc EXCEPT ![o] = "rollback"]
         /\ last_error' = [last_error EXCEPT ![o] = error]
         /\ op_result' = [op_result EXCEPT ![o] = NoResult]
         /\ UNCHANGED <<retry_count, sleeps>>
    ELSE Finish(o, Result(o, "FAILED", error))

\* _handle_failure with the retry guard off by one
HandleFailureRetryOnceMore(o, error) ==
    IF retry_count[o] <= operations[o].max_retries
    THEN /\ retry_count' = [retry_count EXCEPT ![o] = @ + 1]
         /\ sleeps' = [sleeps EXCEPT ![o] = Append(@, 2 ^ (retry_count[o] + 1))]
         /\ pc' = [pc EXCEPT ![o] = "backoff"]
         /\ last_error' = [last_error EXCEPT ![o] = error]
         /\ op_result' = [op_result EXCEPT ![o] = NoResult]
    ELSE Finish(o, Result(o, "FAILED", error))

\* _handle_failure sleeping 2 ** retry_count as it was before the increment
HandleFailureSleepsBeforeIncrement(o, error) ==
    IF retry_count[o] < operations[o].max_retries
    THEN /\ retry_count' = [retry_count EXCEPT ![o] = @ + 1]
         /\ sleeps' = [sleeps EXCEPT ![o] = Append(@, 2 ^ retry_count[o])]
         /\ pc' = [pc EXCEPT ![o] = "backoff"]
         /\ last_error' = [last_error EXCEPT ![o] = error]
         /\ op_result' = [op_result EXCEPT ![o] = NoResult]
    ELSE IF operations[o].rollback /\ checkpoint_id[o] # NoCheckpoint
    THEN /\ pc' = [pc EXCEPT ![o] = "rollback"]
         /\ last_error' = [last_error EXCEPT ![o] = error]
         /\ op_result' = [op_result EXCEPT ![o] = NoResult]
         /\ UNCHANGED <<retry_count, sleeps>>
    ELSE Finish(o, Result(o, "FAILED", error))

\* _handle_failure up to its first await: the backoff sleep, the rollback hook,
\* or the return of the FAILED result
HandleFailure(o, error) ==
    IF retry_count[o] < operations[o].max_retries
    THEN /\ retry_count' = [retry_count EXCEPT ![o] = @ + 1]
         /\ sleeps' = [sleeps EXCEPT ![o] = Append(@, 2 ^ (retry_count[o] + 1))]
         /\ pc' = [pc EXCEPT ![o] = "backoff"]
         /\ last_error' = [last_error EXCEPT ![o] = error]
         /\ op_result' = [op_result EXCEPT ![o] = NoResult]
    ELSE IF operations[o].rollback /\ checkpoint_id[o] # NoCheckpoint
    THEN /\ pc' = [pc EXCEPT ![o] = "rollback"]
         /\ last_error' = [last_error EXCEPT ![o] = error]
         /\ op_result' = [op_result EXCEPT ![o] = NoResult]
         /\ UNCHANGED <<retry_count, sleeps>>
    ELSE Finish(o, Result(o, "FAILED", error))

\* ------------------------------------------------------------------------
\* the steps of one execute_operation coroutine, from await to await

\* a caller invokes execute_operation(call.op)
ExecuteOperationCall ==
    /\ call.kind = "operation"
    /\ pc[call.op] = "idle"
    /\ EnterAttempt({call.op})
    /\ view_before' = [view_before EXCEPT ![call.op] = LoadView(store, now)]
    /\ UNCHANGED <<seq_pc, seq_pos, suggestions>>
    /\ UNCHANGED <<stateVars, call, operations, max_parallel, cacheVars, guardVars, parVars>>

\* a rejection handed to _handle_failure like an exception
ValidateRejectionRetried(o) ==
    /\ pc[o] = "validate"
    /\ \E allowed \in BOOLEAN :
         IF allowed
         THEN /\ Goto(o, "pre")
              /\ validated' = [validated EXCEPT ![o] = TRUE]
              /\ UNCHANGED exec_failed
         ELSE /\ HandleFailure(o, "PermissionError")
              /\ UNCHANGED validated
              /\ exec_failed' = [exec_failed EXCEPT ![o] = FALSE]
    /\ UNCHANGED <<checkpoint_id, executing, patterns, exec_calls, exec_error>>
    /\ UNCHANGED <<stateVars, call, operations, max_parallel, cacheVars, guardVars, parVars, entryVars>>

\* security_validator.validate_action returns
Validate(o) ==
    /\ pc[o] = "validate"
    /\ \E allowed \in BOOLEAN :
         IF allowed
         THEN /\ Goto(o, "pre")
              /\ validated' = [validated EXCEPT ![o] = TRUE]
              /\ UNCHANGED exec_failed
         ELSE /\ Finish(o, Result(o, "FAILED", "PermissionError"))
              /\ UNCHANGED validated
              /\ exec_failed' = [exec_failed EXCEPT ![o] = FALSE]
    /\ UNCHANGED <<checkpoint_id, executing, patterns, exec_calls, exec_error>>
    /\ UNCHANGED <<stateVars, call, operations, max_parallel, cacheVars, guardVars, parVars, entryVars>>

\* operation.pre_validation returns (an operation without the hook behaves as
\* one whose hook returns True); without a rollback hook the executor is
\* invoked in the same step
PreValidation(o) ==
    /\ pc[o] = "pre"
    /\ \E ok \in BOOLEAN :
         IF ~ok
         THEN /\ HandleFailure(o, "ValueError")
              /\ exec_failed' = [exec_failed EXCEPT ![o] = FALSE]
              /\ UNCHANGED <<executing, exec_calls>>
         ELSE IF operations[o].rollback
         THEN Goto(o, "ckpt") /\ UNCHANGED <<executing, exec_calls, exec_failed>>
         ELSE InvokeExecutor(o) /\ UNCHANGED exec_failed
    /\ KeepContext(o)
    /\ UNCHANGED <<patterns, exec_error>>
    /\ UNCHANGED <<stateVars, call, operations, max_parallel, cacheVars, guardVars, parVars, entryVars>>

\* state_manager.create_checkpoint returns; the executor is invoked
CreateCheckpointForOp(o) ==
    /\ pc[o] = "ckpt"
    /\ snapshots' = Append(snapshots, Snapshot(store, now, persisted))
    /\ view_at' = Append(view_at, LoadView(store, now))
    /\ store' = StoreAfterCheckpoint(store, now)
    /\ persisted' = persisted \cup {Len(snapshots) + 1}
    /\ checkpoint_id' = [checkpoint_id EXCEPT ![o] = Len(snapshots) + 1]
    /\ InvokeExecutor(o)
    /\ UNCHANGED <<patterns, validated, exec_failed, exec_error>>
    /\ UNCHANGED <<now, current_transaction, txn_count, sm_error, last_call, direct,
                   recordVars>>
    /\ UNCHANGED <<call, operations, max_parallel, cacheVars, guardVars, parVars, entryVars>>
    /\ UNCHANGED taskVars

\* an executor whose FAILED result is handed to _handle_failure like an exception
ExecutorCompletesFailedIsRetried(o) ==
    /\ pc[o] = "inflight"
    /\ executing' = executing \ {o}
    /\ \E out \in ExecutorOutcomes(o) :
         IF out = "SUCCESS"
         THEN /\ pc' = [pc EXCEPT ![o] = "post"]
              /\ op_result' = [op_result EXCEPT ![o] =
                     [operation_id |-> ActionId(o), status |-> out, error |-> "none"]]
              /\ exec_failed' = [exec_failed EXCEPT ![o] = FALSE]
              /\ exec_error' = [exec_error EXCEPT ![o] = "none"]
              /\ UNCHANGED <<retry_count, sleeps, last_error>>
         ELSE /\ HandleFailure(o, CASE out = "timeout" -> "TimeoutError"
                                    [] out = "FAILED" -> "ActionError"
                                    [] OTHER -> "ExecutorError")
              /\ exec_error' = [exec_error EXCEPT ![o] =
                     IF out = "timeout" THEN "TimeoutError" ELSE "ExecutorError"]
              /\ UNCHANGED exec_failed
    /\ KeepContext(o)
    /\ UNCHANGED <<patterns, exec_calls>>
    /\ UNCHANGED <<stateVars, call, operations, max_parallel, cacheVars, guardVars, parVars, entryVars>>

\* an _execute_action without the finally clause: the entry is deleted only
\* when the executor returns
ExecutorCompletesWithoutFinally(o) ==
    /\ pc[o] = "inflight"
    /\ \E out \in ExecutorOutcomes(o) :
         IF out \in ExecutorStatuses
         THEN /\ pc' = [pc EXCEPT ![o] = "post"]
              /\ executing' = executing \ {o}
              /\ op_result' = [op_result EXCEPT ![o] =
                     [operation_id |-> ActionId(o), status |-> out,
                      error |-> IF out = "FAILED" THEN "ActionError" ELSE "none"]]
              /\ exec_failed' = [exec_failed EXCEPT ![o] = FALSE]
              /\ exec_error' = [exec_error EXCEPT ![o] = "none"]
              /\ UNCHANGED <<retry_count, sleeps, last_error>>
         ELSE /\ HandleFailure(o, IF out = "timeout" THEN "TimeoutError" ELSE "ExecutorError")
              /\ UNCHANGED executing
              /\ exec_error' = [exec_error EXCEPT ![o] =
                     IF out = "timeout" THEN "TimeoutError" ELSE "ExecutorError"]
              /\ UNCHANGED exec_failed
    /\ KeepContext(o)
    /\ UNCHANGED <<patterns, exec_calls>>
    /\ UNCHANGED <<stateVars, call, operations, max_parallel, cacheVars, guardVars, parVars, entryVars>>

\* action_interface.execute_action returns, raises, or is cut by the timeout
ExecutorCompletes(o) ==
    /\ pc[o] = "inflight"
    /\ executing' = executing \ {o}
    /\ \E out \in ExecutorOutcomes(o) :
         IF out \in ExecutorStatuses
         THEN /\ pc' = [pc EXCEPT ![o] = "post"]
              /\ op_result' = [op_result EXCEPT ![o] =
                     [operation_id |-> ActionId(o), status |-> out,
                      error |-> IF out = "FAILED" THEN "ActionError" ELSE "none"]]
              /\ exec_failed' = [exec_failed EXCEPT ![o] = FALSE]
              /\ exec_error' = [exec_error EXCEPT ![o] = "none"]
              /\ UNCHANGED <<retry_count, sleeps, last_error>>
         ELSE /\ HandleFailure(o, IF out = "timeout" THEN "TimeoutError" ELSE "ExecutorError")
              /\ exec_error' = [exec_error EXCEPT ![o] =
                     IF out = "timeout" THEN "TimeoutError" ELSE "ExecutorError"]
              /\ UNCHANGED exec_failed
    /\ KeepContext(o)
    /\ UNCHANGED <<patterns, exec_calls>>
    /\ UNCHANGED <<stateVars, call, operations, max_parallel, cacheVars, guardVars, parVars, entryVars>>

\* operation.post_validation returns (no hook: as a hook returning True); on
\* success _learn_from_execution runs and the result is returned
PostValidation(o) ==
    /\ pc[o] = "post"
    /\ \E ok \in BOOLEAN :
         IF ok
         THEN /\ Finish(o, op_result[o])
              /\ patterns' = IF EnableLearning /\ op_result[o].status = "SUCCESS"
                             THEN patterns + 1 ELSE patterns
              /\ IF patterns' # patterns /\ patterns' % LearnSaveEvery = 0
                 THEN /\ store' = StoreAfterSave(store, now, current_transaction,
                                                 "execution_patterns", "patterns")
                      /\ current_transaction' = TxnAfterSave(current_transaction,
                                                 "execution_patterns", "patterns")
                      /\ direct' = DirectAfterSave(direct, current_transaction,
                                                 "execution_patterns", "patterns")
                 ELSE UNCHANGED <<store, current_transaction, direct>>
         ELSE /\ HandleFailure(o, "RuntimeError")
              /\ UNCHANGED <<patterns, store, current_transaction, direct>>
    /\ KeepContext(o)
    /\ UNCHANGED <<executing, exec_calls, exec_failed, exec_error>>
    /\ UNCHANGED <<persisted, snapshots, now, txn_count, sm_error, last_call, view_at, recordVars>>
    /\ UNCHANGED <<call, operations, max_parallel, cacheVars, guardVars, parVars, entryVars>>
    /\ UNCHANGED taskVars

\* a retry that resumes at the pre-validation instead of entering execute_operation
RetryResumesAfterValidation(o) ==
    /\ pc[o] = "backoff"
    /\ pc' = [pc EXCEPT ![o] = "pre"]
    /\ checkpoint_id' = [checkpoint_id EXCEPT ![o] = NoCheckpoint]
    /\ validated' = [validated EXCEPT ![o] = FALSE]
    /\ UNCHANGED <<op_result, retry_count, sleeps, last_error, executing, patterns,
                   exec_calls, exec_failed, exec_error>>
    /\ UNCHANGED <<stateVars, call, operations, max_parallel, cacheVars, guardVars, parVars, entryVars>>

\* the backoff sleep is over: execute_operation is entered again
RetryAfterBackoff(o) ==
    /\ pc[o] = "backoff"
    /\ EnterAttempt({o})
    /\ UNCHANGED <<stateVars, call, operations, max_parallel, cacheVars, guardVars, parVars, entryVars>>

\* a rollback that returns ROLLED_BACK without restoring the checkpoint
RollbackWithoutRestore(o) ==
    /\ pc[o] = "rollback"
    /\ \E hook_ok \in BOOLEAN :
         /\ UNCHANGED <<store, persisted>>
         /\ Finish(o, Result(o, IF hook_ok THEN "ROLLED_BACK" ELSE "FAILED", last_error[o]))
    /\ KeepContext(o)
    /\ UNCHANGED <<executing, patterns, exec_calls, exec_failed, exec_error>>
    /\ UNCHANGED <<snapshots, now, current_transaction, txn_count, sm_error, last_call, view_at, direct,
                   recordVars>>
    /\ UNCHANGED <<call, operations, max_parallel, cacheVars, guardVars, parVars, entryVars>>
    /\ UNCHANGED taskVars

\* retries are exhausted: operation.rollback() returns or raises; when it
\* returns, restore_checkpoint(context.checkpoint_id) follows
Rollback(o) ==
    /\ pc[o] = "rollback"
    /\ \E hook_ok \in BOOLEAN :
         IF hook_ok
         THEN /\ store' = RestoredStore(snapshots[checkpoint_id[o]])
              /\ persisted' = persisted \cup snapshots[checkpoint_id[o]].snaps
              /\ Finish(o, Result(o, "ROLLED_BACK", last_error[o]))
         ELSE /\ UNCHANGED <<store, persisted>>
              /\ Finish(o, Result(o, "FAILED", last_error[o]))
    /\ KeepContext(o)
    /\ UNCHANGED <<executing, patterns, exec_calls, exec_failed, exec_error>>
    /\ UNCHANGED <<snapshots, now, current_transaction, txn_count, sm_error, last_call, view_at, direct,
                   recordVars>>
    /\ UNCHANGED <<call, operations, max_parallel, cacheVars, guardVars, parVars, entryVars>>
    /\ UNCHANGED taskVars

\* ------------------------------------------------------------------------
\* execute_parallel

\* _build_dependency_graph: {op: op.dependencies.copy() for op in operations}
BuildDependencyGraph == [o \in Ops |-> operations[o].dependencies]

\* a ready list that does not look at the dependencies
ReadyUnchecked(g) == SelectSeq(OpList, LAMBDA o : o \in DOMAIN g)

\* ready: the operations of the graph without dependencies, in list order
Ready(g) == SelectSeq(OpList, LAMBDA o : o \in DOMAIN g /\ g[o] = {})

\* a wave of every ready operation
WaveOfUnbounded(g) == Ready(g)

\* ready[:max_parallel]
WaveOf(g) == SubSeq(Ready(g), 1, Min(max_parallel, Len(Ready(g))))

\* a wave that takes every ready operation out of the graph, launched or not
RemoveAllReady(g, w) ==
    [o \in DOMAIN g \ Range(Ready(g)) |-> g[o] \ Range(Ready(g))]

\* the graph after a wave: its operations removed, their ids discarded from
\* the dependencies of the others
RemoveWave(g, w) ==
    [o \in DOMAIN g \ Range(w) |-> g[o] \ Range(w)]

\* the head of the while loop, up to the await of asyncio.gather
LoopHead(g, res) ==
    /\ dependency_graph' = g
    /\ results' = res
    /\ IF DOMAIN g = {}
       THEN /\ par_pc' = "returned"
            /\ wave' = <<>>
            /\ par_error' = "none"
            /\ UNCHANGED <<opVars, view_before>>
       ELSE IF Len(Ready(g)) = 0
       THEN /\ par_pc' = "raised"
            /\ wave' = <<>>
            /\ par_error' = "Circular dependency"
            /\ UNCHANGED <<opVars, view_before>>
       ELSE /\ par_pc' = "gather"
            /\ wave' = WaveOf(g)
            /\ par_error' = "none"
            /\ EnterAttempt(Range(WaveOf(g)))
            /\ view_before' = [o \in Ops |-> IF o \in Range(WaveOf(g))
                                              THEN LoadView(store, now) ELSE view_before[o]]

\* a caller invokes execute_parallel(OpList); Operation is a dataclass with
\* eq and without hash, so building the dict raises TypeError unless the
\* operations are instances of a hashable subclass
ExecuteParallelCall ==
    /\ call.kind = "parallel"
    /\ par_pc = "idle"
    /\ IF call.hashable
       THEN LoopHead(BuildDependencyGraph, <<>>)
       ELSE /\ par_pc' = "raised"
            /\ par_error' = "TypeError"
            /\ UNCHANGED <<dependency_graph, wave, results, opVars, view_before>>
    /\ UNCHANGED <<seq_pc, seq_pos, suggestions>>
    /\ UNCHANGED <<stateVars, call, operations, max_parallel, cacheVars, guardVars>>

\* a gather that returns as soon as one operation of the wave is done
WaveCollectFirstDone ==
    /\ par_pc = "gather"
    /\ \E o \in Range(wave) : pc[o] = "done"
    /\ LoopHead(RemoveWave(dependency_graph, wave),
                results \o [i \in 1..Len(wave) |-> op_result[wave[i]]])
    /\ UNCHANGED <<seq_pc, seq_pos, suggestions>>
    /\ UNCHANGED <<stateVars, call, operations, max_parallel, cacheVars, guardVars>>

\* asyncio.gather returns: the results of the wave are appended, the graph is
\* updated and the loop goes round
WaveCollect ==
    /\ par_pc = "gather"
    /\ \A o \in Range(wave) : pc[o] = "done"
    /\ LoopHead(RemoveWave(dependency_graph, wave),
                results \o [i \in 1..Len(wave) |-> op_result[wave[i]]])
    /\ UNCHANGED <<seq_pc, seq_pos, suggestions>>
    /\ UNCHANGED <<stateVars, call, operations, max_parallel, cacheVars, guardVars>>

\* ------------------------------------------------------------------------
\* execute_sequence

\* a for loop that no failure breaks
BreakNever(o, res) == FALSE

\* the break of the for loop: the result is FAILED and the operation's metadata
\* does not ask to continue
Break(o, res) == res.status = "FAILED" /\ ~operations[o].continue_on_failure

\* a caller invokes execute_sequence(OpList): execute_operation is entered for
\* the first operation of the list
ExecuteSequenceCall ==
    /\ call.kind = "sequence"
    /\ seq_pc = "idle"
    /\ results' = <<>>
    /\ seq_pos' = 1
    /\ seq_pc' = "await"
    /\ EnterAttempt({OpList[1]})
    /\ view_before' = [view_before EXCEPT ![OpList[1]] = LoadView(store, now)]
    /\ UNCHANGED <<dependency_graph, wave, par_pc, par_error, suggestions>>
    /\ UNCHANGED <<stateVars, call, operations, max_parallel, cacheVars, guardVars>>

\* execute_operation has returned: its result is appended; the loop breaks,
\* ends with the list, or enters execute_operation for the next operation
SequenceNext ==
    /\ seq_pc = "await"
    /\ pc[OpList[seq_pos]] = "done"
    /\ results' = Append(results, op_result[OpList[seq_pos]])
    /\ IF Break(OpList[seq_pos], op_result[OpList[seq_pos]]) \/ seq_pos = Len(OpList)
       THEN /\ seq_pc' = "returned"
            /\ UNCHANGED <<seq_pos, opVars, view_before>>
       ELSE /\ seq_pos' = seq_pos + 1
            /\ EnterAttempt({OpList[seq_pos + 1]})
            /\ view_before' = [view_before EXCEPT ![OpList[seq_pos + 1]] = LoadView(store, now)]
            /\ UNCHANGED seq_pc
    /\ UNCHANGED <<dependency_graph, wave, par_pc, par_error, suggestions>>
    /\ UNCHANGED <<stateVars, call, operations, max_parallel, cacheVars, guardVars>>

\* ------------------------------------------------------------------------
MaxDeps == 1

DepChoices == {d \in SUBSET (Ops \cup {Foreign}) : Cardinality(d) <= MaxDeps}

\* shapes of dependency graphs: nothing, a chain, two operations feeding a
\* third, a cycle beside a free operation, a dependency outside the batch
Independent   == [o \in Ops |-> {}]
Chain         == [o \in Ops |-> CASE o = "A" -> {} [] o = "B" -> {"A"} [] OTHER -> {"B"}]
FanIn         == [o \in Ops |-> IF o = "C" THEN {"A", "B"} ELSE {}]
CycleWithFree == [o \in Ops |-> CASE o = "A" -> {} [] o = "B" -> {"C"} [] OTHER -> {"B"}]
ForeignDep    == [o \in Ops |-> IF o = "B" THEN {Foreign} ELSE {}]

ShapeGraphs == {Independent, Chain, FanIn, CycleWithFree, ForeignDep}

\* every graph in which an operation has at most MaxDeps dependencies
DepGraphs == [Ops -> DepChoices] \cup ShapeGraphs

Profiles == [rollback : BOOLEAN, timeout : BOOLEAN, max_retries : 0..MaxRetries]

\* the operations of a batch are submitted alike and without timeout: without
\* retries over every graph of DepGraphs, with one retry over the shapes
BatchInputs ==
    ([rollback : BOOLEAN, timeout : {FALSE}, max_retries : {0}] \X DepGraphs)
    \cup ([rollback : BOOLEAN, timeout : {FALSE}, max_retries : {1}] \X ShapeGraphs)

\* Action: the fields suggest_optimizations reads (target "None" is None)
DefaultAction == [type |-> "CLICK", target |-> "None"]

\* an Operation; continue_on_failure is metadata.get("continue_on_failure"),
\* cancelled is a CANCELLED mark its owner has put on it (Operation has no
\* status field: the mark is an entry of metadata or an attribute set on it)
MakeOperation(p, deps, rc) ==
    [dependencies |-> deps, rollback |-> p.rollback, timeout |-> p.timeout,
     max_retries |-> p.max_retries, retry_count |-> rc,
     action |-> DefaultAction, continue_on_failure |-> FALSE, cancelled |-> FALSE]

NoView == [k \in {} |-> "None"]
NoSuggestions == [returned |-> FALSE, list |-> <<>>]

\* nothing is running
OrchStart ==
    /\ retry_count = [o \in Ops |-> operations[o].retry_count]
    /\ sleeps = [o \in Ops |-> <<>>]
    /\ pc = [o \in Ops |-> "idle"]
    /\ checkpoint_id = [o \in Ops |-> NoCheckpoint]
    /\ op_result = [o \in Ops |-> NoResult]
    /\ last_error = [o \in Ops |-> "none"]
    /\ executing = {}
    /\ validated = [o \in Ops |-> FALSE]
    /\ exec_calls = [o \in Ops |-> 0]
    /\ exec_failed = [o \in Ops |-> TRUE]
    /\ exec_error = [o \in Ops |-> "none"]
    /\ dependency_graph = [o \in {} |-> {}]
    /\ wave = <<>>
    /\ results = <<>>
    /\ par_pc = "idle"
    /\ par_error = "none"
    /\ seq_pc = "idle"
    /\ seq_pos = 0
    /\ suggestions = NoSuggestions
    /\ view_before = [o \in Ops |-> NoView]

\* an orchestrator nobody calls
OrchIdle ==
    /\ call = [kind |-> "none", op |-> "A", hashable |-> TRUE]
    /\ operations = [o \in Ops |-> MakeOperation([rollback |-> FALSE, timeout |-> FALSE,
                                                  max_retries |-> 0], {}, 0)]
    /\ max_parallel = MaxParallel
    /\ patterns = 0
    /\ OrchStart

OrchInit ==
    /\ \/ /\ call = [kind |-> "operation", op |-> "A", hashable |-> TRUE]
          /\ \E p \in Profiles, rc \in 0..MaxRetries :
               /\ rc <= p.max_retries
               /\ operations = [o \in Ops |-> MakeOperation(p, {}, rc)]
          /\ max_parallel = MaxParallel
          /\ patterns \in {0, LearnSaveEvery - 1}
       \/ /\ call \in [kind : {"parallel"}, op : {"A"}, hashable : BOOLEAN]
          /\ \E b \in BatchInputs :
               operations = [o \in Ops |-> MakeOperation(b[1], b[2][o], 0)]
          /\ max_parallel \in 0..MaxParallel
          /\ patterns = LearnSaveEvery - 2
    /\ OrchStart

InitOrch == StateInit /\ OrchInit /\ CacheInit /\ GuardIdle

NextOrch ==
    \/ ExecuteOperationCall
    \/ ExecuteParallelCall
    \/ WaveCollect
    \/ \E o \in Ops : Validate(o)
    \/ \E o \in Ops : PreValidation(o)
    \/ \E o \in Ops : CreateCheckpointForOp(o)
    \/ \E o \in Ops : ExecutorCompletes(o)
    \/ \E o \in Ops : PostValidation(o)
    \/ \E o \in Ops : RetryAfterBackoff(o)
    \/ \E o \in Ops : Rollback(o)

SpecOrch == InitOrch /\ [][NextOrch]_vars


(***************************************************************************)
(* Claims about the orchestrator, checked under SpecOrch                   *)
(***************************************************************************)

\* C1: whenever the executor call of an operation is in flight, validate_action
\* was called and returned allowed=True in that same attempt (the flag is
\* cleared each time execute_operation is entered, retries included).
C1_ValidatedBeforeExecutor ==
    \A o \in Ops : pc[o] = "inflight" => validated[o]

\* the executor is in flight in a retry
C1_Witness ==
    \E o \in Ops : /\ pc[o] = "inflight"
                   /\ validated[o]
                   /\ retry_count[o] > operations[o].retry_count
                   /\ exec_calls[o] = 2

\* some subset of the batch in which every operation waits for another one of it
HasCycle(deps) ==
    \E S \in (SUBSET Ops) \ {{}} : \A o \in S : deps[o] \cap S # {}

SubmittedGraph == [o \in Ops |-> operations[o].dependencies]

\* C2: when the dependency graph passed to execute_parallel has a cycle, no
\* operation of the batch is ever validated, running or passed to the executor.
C2_CycleStartsNothing ==
    (call.kind = "parallel" /\ HasCycle(SubmittedGraph))
        => \A o \in Ops : pc[o] = "idle" /\ exec_calls[o] = 0

\* C3: when execute_parallel returns, the result list is as long as the input
\* list and every result has a terminal status.
C3_ResultsCompleteAndTerminal ==
    par_pc = "returned" =>
        /\ Len(results) = Len(OpList)
        /\ \A i \in 1..Len(results) : results[i].status \in TerminalStatuses

\* execute_parallel returned after deferring ready operations to later waves
C3_Witness ==
    /\ par_pc = "returned"
    /\ max_parallel = 1
    /\ SubmittedGraph = Independent
    /\ \E i \in 1..Len(results) : results[i].status = "ROLLED_BACK"
    /\ \E i \in 1..Len(results) : results[i].status = "SUCCESS"

\* C4: retry_count never exceeds max_retries and never decreases.
C4_RetryCountMonotonicBounded ==
    /\ [](\A o \in Ops : retry_count[o] <= operations[o].max_retries)
    /\ [][\A o \in Ops : retry_count'[o] >= retry_count[o]]_vars

\* an operation submitted below its bound was retried up to the bound
C4_Witness ==
    \E o \in Ops : /\ pc[o] = "done"
                   /\ operations[o].retry_count < operations[o].max_retries
                   /\ retry_count[o] = operations[o].max_retries

\* C5: an operation without rollback hook, submitted with retry_count 0, all
\* of whose attempts ended with the executor raising or timing out, ends
\* FAILED with retry_count = max_retries after max_retries + 1 executor
\* calls, and its result carries the error of the last call.
C5_ExhaustedRetriesEndFailed ==
    \A o \in Ops :
        (/\ pc[o] = "done"
         /\ ~operations[o].rollback
         /\ operations[o].retry_count = 0
         /\ exec_failed[o])
        => /\ op_result[o].status = "FAILED"
           /\ retry_count[o] = operations[o].max_retries
           /\ exec_calls[o] = operations[o].max_retries + 1
           /\ op_result[o].error = exec_error[o]
           /\ op_result[o].error \in {"ExecutorError", "TimeoutError"}

\* such an operation, retried at least once, whose last attempt timed out
C5_Witness ==
    \E o \in Ops : /\ pc[o] = "done"
                   /\ ~operations[o].rollback
                   /\ operations[o].retry_count = 0
                   /\ operations[o].max_retries >= 1
                   /\ exec_failed[o]
                   /\ op_result[o].error = "TimeoutError"

\* C12: a rejection by validate_action is terminal: the step in which
\* validate_action returns not allowed ends execute_operation with FAILED and
\* the PermissionError carrying the reason; retry_count, the executor call
\* count, the checkpoints and the store are as before, no hook is awaited, and
\* the operation stays done with that result.
C12_RejectionIsTerminal ==
    [][\A o \in Ops :
         /\ (pc[o] = "validate" /\ pc'[o] # "validate" /\ ~validated'[o]) =>
               /\ pc'[o] = "done"
               /\ op_result'[o] = Result(o, "FAILED", "PermissionError")
               /\ retry_count'[o] = retry_count[o]
               /\ exec_calls'[o] = exec_calls[o]
               /\ checkpoint_id'[o] = NoCheckpoint
               /\ o \notin executing'
               /\ snapshots' = snapshots
               /\ store' = store
         /\ (pc[o] = "done" /\ op_result[o].error = "PermissionError") =>
               /\ pc'[o] = "done"
               /\ op_result'[o] = op_result[o]
               /\ retry_count'[o] = retry_count[o]
               /\ exec_calls'[o] = exec_calls[o]
      ]_vars

\* an operation with a rollback hook and a retry left was rejected at once
C12_Witness ==
    \E o \in Ops : /\ pc[o] = "done"
                   /\ op_result[o] = Result(o, "FAILED", "PermissionError")
                   /\ operations[o].rollback
                   /\ retry_count[o] < operations[o].max_retries
                   /\ exec_calls[o] = 0
                   /\ snapshots = <<>>

\* the errors execute_operation raises for a hook that returned false
ValidationErrors == {"ValueError", "RuntimeError"}

\* C13: a failure of pre_validation or post_validation is terminal: it never
\* puts the operation into the backoff sleep of a retry (retry_count
\* incremented, the executor to be invoked again).
C13_ValidationFailureNotRetried ==
    \A o \in Ops : pc[o] = "backoff" => last_error[o] \notin ValidationErrors

\* execute_operation was entered for o
Started(o) == pc[o] # "idle"

\* C18: in execute_parallel, for every acyclic dependency graph and every
\* max_parallel >= 1, an operation is not started (validated, or passed to
\* the executor) before every operation named in its dependencies has a
\* terminal result.
C18_StartedAfterDependencies ==
    (call.kind = "parallel" /\ ~HasCycle(SubmittedGraph) /\ max_parallel >= 1) =>
        \A o \in Ops :
            (Started(o) \/ validated[o] \/ exec_calls[o] > 0) =>
                \A d \in operations[o].dependencies :
                    /\ d \in Ops
                    /\ pc[d] = "done"
                    /\ op_result[d].status \in TerminalStatuses

\* the last operation of a chain is with the executor after the first one
\* failed and the second one succeeded, one operation per wave
C18_Witness ==
    /\ call.kind = "parallel"
    /\ SubmittedGraph = Chain
    /\ max_parallel = 1
    /\ pc["C"] = "inflight"
    /\ op_result["A"].status = "FAILED"
    /\ op_result["B"].status = "SUCCESS"

\* the results execute_parallel has collected
Reported == Range(results)

\* C22: in execute_parallel every operation that was started and is not of
\* the current wave is done with a terminal status, so no operation of the
\* next wave starts before the whole wave is done; when one operation of a
\* wave ends FAILED (a FAILED result or an exception) its siblings are left
\* as they are, none is ever CANCELLED, a wave is left only with the results
\* of all its operations reported, and the returned list holds the result of
\* every operation.
C22_WavesInLockstep ==
    /\ [](call.kind = "parallel" =>
            /\ \A o \in Ops : (Started(o) /\ o \notin Range(wave)) =>
                  pc[o] = "done" /\ op_result[o].status \in TerminalStatuses
            /\ \A o \in Ops : op_result[o].status # "CANCELLED"
            /\ par_pc = "returned" => \A o \in Ops : pc[o] = "done" /\ op_result[o] \in Reported)
    /\ [][\A o \in Ops :
            /\ (wave' # wave /\ o \in Range(wave)) =>
                  pc[o] = "done" /\ op_result[o] \in Range(results')
            /\ (pc[o] # "done" /\ pc'[o] = "done" /\ op_result'[o].status = "FAILED") =>
                  \A s \in Ops \ {o} : pc'[s] = pc[s] /\ op_result'[s] = op_result[s]]_vars

\* A and B form a wave and C waits for both: the executor of A has raised, A
\* is done FAILED, B is still with the executor and C has not been started
C22_Witness ==
    /\ call.kind = "parallel"
    /\ SubmittedGraph = FanIn
    /\ wave = <<"A", "B">>
    /\ pc["A"] = "done" /\ op_result["A"].status = "FAILED"
    /\ op_result["A"].error = "ExecutorError"
    /\ pc["B"] = "inflight"
    /\ pc["C"] = "idle"

\* the operations whose execute_operation coroutine is running
InFlight == {o \in Ops : pc[o] \notin {"idle", "done"}}

\* how many of the collected results are the result of o
TimesReported(o) == Cardinality({i \in 1..Len(results) : results[i] = op_result[o]})

\* C23: during an execute_parallel call at most max_parallel operations are
\* in flight; the current wave is the first max_parallel ready operations,
\* the other ready ones stay in the graph unstarted; execute_operation is
\* entered for an operation from a wave once (again only as a retry of its
\* own, never after it is done), and when execute_parallel returns every
\* operation is done and reported once.
C23_AtMostMaxParallelInFlight ==
    /\ [](call.kind = "parallel" =>
            /\ Cardinality(InFlight) <= max_parallel
            /\ InFlight \subseteq Range(wave)
            /\ Len(wave) <= max_parallel
            /\ par_pc = "gather" =>
                  \A o \in Range(Ready(dependency_graph)) \ Range(wave) : pc[o] = "idle"
            /\ par_pc = "returned" =>
                  \A o \in Ops : pc[o] = "done" /\ TimesReported(o) = 1)
    /\ [][call.kind = "parallel" =>
            \A o \in Ops :
                (pc'[o] = "validate" /\ pc[o] # "validate") =>
                    \/ pc[o] = "idle" /\ o \in Range(wave') /\ wave' # wave
                    \/ pc[o] = "backoff" /\ o \in Range(wave) /\ wave' = wave]_vars

\* three independent operations under max_parallel = 1: A is done and
\* reported, B is the wave, C is ready and waits in the graph
C23_Witness ==
    /\ call.kind = "parallel"
    /\ SubmittedGraph = Independent
    /\ max_parallel = 1
    /\ Len(results) = 1
    /\ wave = <<"B">> /\ pc["B"] = "inflight"
    /\ "C" \in Range(Ready(dependency_graph)) /\ pc["C"] = "idle"

\* C25: execute_parallel raises the circular-dependency error only when the
\* dependency graph submitted has a cycle; a dependency on an id that no
\* operation of the batch has is no cycle.
C25_CircularErrorOnlyForCycle ==
    (call.kind = "parallel" /\ par_pc = "raised" /\ par_error = "Circular dependency")
        => HasCycle(SubmittedGraph)

\* the operations whose executor call is in flight
WithExecutor == {o \in Ops : pc[o] = "inflight"}

\* C27: the keys of the executing registry are the operations whose executor
\* call is in flight: an id is added in the step that invokes the executor
\* and removed in the step in which the call returns, raises or is cut by
\* the timeout, each step changing the entry of its own operation only, so
\* the registry is empty when no executor call is in flight.
C27_ExecutingRegistry ==
    /\ [](executing = WithExecutor)
    /\ [][\A o \in Ops :
            /\ (o \in executing' /\ o \notin executing) =>
                  /\ pc[o] # "inflight" /\ pc'[o] = "inflight"
                  /\ exec_calls'[o] = exec_calls[o] + 1
                  /\ executing' = executing \cup {o}
            /\ (o \in executing /\ o \notin executing') =>
                  /\ pc[o] = "inflight" /\ pc'[o] # "inflight"
                  /\ executing' = executing \ {o}]_vars

\* in a wave of two the executor of A has raised and A's entry is gone, while
\* the entry of B, still with the executor, is kept
C27_Witness ==
    /\ call.kind = "parallel"
    /\ wave = <<"A", "B">>
    /\ pc["A"] = "done" /\ exec_error["A"] = "ExecutorError"
    /\ executing = {"B"}
    /\ exec_calls["B"] = 1





(***************************************************************************)
(* execute_parallel with every awaited call returning                      *)
(***************************************************************************)
\* the batches of OrchInit, without retries
ParInit ==
    /\ call \in [kind : {"parallel"}, op : {"A"}, hashable : BOOLEAN]
    /\ \E p \in [rollback : BOOLEAN, timeout : {FALSE}, max_retries : {0}], g \in DepGraphs :
         operations = [o \in Ops |-> MakeOperation(p, g[o], 0)]
    /\ max_parallel \in 0..MaxParallel
    /\ patterns = LearnSaveEvery - 2
    /\ OrchStart

InitPar == StateInit /\ ParInit /\ CacheInit /\ GuardIdle

NextPar ==
    \/ ExecuteParallelCall
    \/ WaveCollect
    \/ \E o \in Ops : Validate(o)
    \/ \E o \in Ops : PreValidation(o)
    \/ \E o \in Ops : CreateCheckpointForOp(o)
    \/ \E o \in Ops : ExecutorCompletes(o)
    \/ \E o \in Ops : PostValidation(o)
    \/ \E o \in Ops : Rollback(o)

\* the event loop runs whatever can run, and every validator, hook, executor
\* and state manager call returns
SpecPar == InitPar /\ [][NextPar]_vars /\ WF_vars(NextPar)

\* every dependency names an operation of the batch
DependenciesInBatch == \A o \in Ops : operations[o].dependencies \subseteq Ops

\* C24: execute_parallel, called with hashable operations whose dependency
\* graph is acyclic and names operations of the batch only, eventually
\* returns, whatever max_parallel is configured.
C24_ParallelReturns ==
    (/\ call.kind = "parallel" /\ call.hashable
     /\ ~HasCycle(SubmittedGraph)
     /\ DependenciesInBatch)
        ~> (par_pc = "returned")

(***************************************************************************)
(* execute_parallel while the caller marks operations CANCELLED            *)
(***************************************************************************)
\* the caller marks operation o CANCELLED; the orchestrator has no method
\* for it and reads no such mark
MarkCancelled(o) ==
    /\ call.kind = "parallel"
    /\ par_pc \in {"idle", "gather"}
    /\ ~operations[o].cancelled
    /\ operations' = [operations EXCEPT ![o].cancelled = TRUE]
    /\ UNCHANGED <<stateVars, call, max_parallel, opVars, parVars, entryVars, cacheVars, guardVars>>

CancelInit ==
    /\ call = [kind |-> "parallel", op |-> "A", hashable |-> TRUE]
    /\ \E p \in [rollback : BOOLEAN, timeout : {FALSE}, max_retries : {0}], g \in ShapeGraphs :
         operations = [o \in Ops |-> MakeOperation(p, g[o], 0)]
    /\ max_parallel \in 1..MaxParallel
    /\ patterns = 0
    /\ OrchStart

InitCancel == StateInit /\ CancelInit /\ CacheInit /\ GuardIdle

NextCancel ==
    \/ ExecuteParallelCall
    \/ WaveCollect
    \/ \E o \in Ops : MarkCancelled(o)
    \/ \E o \in Ops : Validate(o)
    \/ \E o \in Ops : PreValidation(o)
    \/ \E o \in Ops : CreateCheckpointForOp(o)
    \/ \E o \in Ops : ExecutorCompletes(o)
    \/ \E o \in Ops : PostValidation(o)
    \/ \E o \in Ops : Rollback(o)

SpecCancel == InitCancel /\ [][NextCancel]_vars

\* C26: an operation marked CANCELLED while no wave has taken it is not
\* started by any later step of execute_parallel (neither validated nor
\* passed to the executor); marking an operation changes nothing of the
\* operations in flight, and an operation in flight that is marked goes on
\* to its own terminal result.
C26_CancellationIsCooperative ==
    /\ [][\A o \in Ops :
            /\ (operations[o].cancelled /\ pc[o] = "idle") =>
                  pc'[o] = "idle" /\ ~validated'[o] /\ exec_calls'[o] = exec_calls[o]
            /\ operations'[o].cancelled # operations[o].cancelled =>
                  UNCHANGED <<opVars, parVars>>]_vars
    /\ [](\A o \in Ops : (operations[o].cancelled /\ pc[o] = "done") =>
            op_result[o].status \in TerminalStatuses)

(***************************************************************************)
(* execute_sequence over a list of three operations                        *)
(***************************************************************************)
\* the operations all with or all without rollback hook, each with or without
\* retries and the request to continue after a failure
SequenceInputs ==
    [Ops -> [rollback : {TRUE}, max_retries : 0..MaxRetries, continue_on_failure : BOOLEAN]]
    \cup [Ops -> [rollback : {FALSE}, max_retries : 0..MaxRetries, continue_on_failure : BOOLEAN]]

SeqInit ==
    /\ call = [kind |-> "sequence", op |-> "A", hashable |-> TRUE]
    /\ \E inp \in SequenceInputs :
         operations = [o \in Ops |->
            [MakeOperation([rollback |-> inp[o].rollback, timeout |-> FALSE,
                            max_retries |-> inp[o].max_retries], {}, 0)
             EXCEPT !.continue_on_failure = inp[o].continue_on_failure]]
    /\ max_parallel = MaxParallel
    /\ patterns = 0
    /\ OrchStart

InitSeq == StateInit /\ SeqInit /\ CacheInit /\ GuardIdle

NextSeq ==
    \/ ExecuteSequenceCall
    \/ SequenceNext
    \/ \E o \in Ops : Validate(o)
    \/ \E o \in Ops : PreValidation(o)
    \/ \E o \in Ops : CreateCheckpointForOp(o)
    \/ \E o \in Ops : ExecutorCompletes(o)
    \/ \E o \in Ops : PostValidation(o)
    \/ \E o \in Ops : RetryAfterBackoff(o)
    \/ \E o \in Ops : Rollback(o)

SpecSeq == InitSeq /\ [][NextSeq]_vars

\* the operation at position i of the list ended FAILED without asking to continue
StopsAt(i) ==
    /\ op_result[OpList[i]].status = "FAILED"
    /\ ~operations[OpList[i]].continue_on_failure

\* C11: execute_sequence runs the operations one at a time in list order and
\* stops at the first one that ends FAILED without continue_on_failure: an
\* operation is entered only when all before it are done and none of them
\* stopped the sequence, and the returned list holds, in order, the results of
\* the operations up to and including the one that stopped it (or of all),
\* while no later operation was validated or executed.
C11_SequenceStopsAtFirstFailure ==
    /\ \A i \in 1..Len(OpList) :
         pc[OpList[i]] # "idle" =>
            /\ \A j \in 1..(i - 1) : pc[OpList[j]] = "done" /\ ~StopsAt(j)
            /\ \A j \in (i + 1)..Len(OpList) : pc[OpList[i]] # "done" => pc[OpList[j]] = "idle"
    /\ seq_pc = "returned" =>
         /\ Len(results) \in 1..Len(OpList)
         /\ \A i \in 1..Len(results) :
              /\ pc[OpList[i]] = "done"
              /\ results[i] = op_result[OpList[i]]
         /\ Len(results) < Len(OpList) => StopsAt(Len(results))
         /\ \A i \in (Len(results) + 1)..Len(OpList) :
              /\ pc[OpList[i]] = "idle"
              /\ exec_calls[OpList[i]] = 0
              /\ op_result[OpList[i]] = NoResult

\* [A, B, C]: A failed and asked to continue, B failed and did not: exactly
\* [resultA, resultB] came back and C never started
C11_Witness ==
    /\ seq_pc = "returned"
    /\ Len(results) = 2
    /\ results[1].status = "FAILED" /\ operations["A"].continue_on_failure
    /\ results[2].status = "FAILED" /\ ~operations["B"].continue_on_failure
    /\ exec_calls["B"] = 2
    /\ pc["C"] = "idle"

\* C29: in the list execute_sequence returns, every result but the last is
\* SUCCESS or is the result of an operation that asked to continue on
\* failure: nothing is executed after an operation that ended FAILED or
\* ROLLED_BACK without continue_on_failure.
C29_NothingRunsAfterFailure ==
    seq_pc = "returned" =>
        \A i \in 1..(Len(results) - 1) :
            \/ results[i].status = "SUCCESS"
            \/ operations[OpList[i]].continue_on_failure

(***************************************************************************)
(* execute_operation of one operation whose executor writes state          *)
(***************************************************************************)
\* save_state(k, v) called by the application before execute_operation, or
\* by the executor while an attempt of the operation is with it
RecoverSaveState(k, v) ==
    /\ pc[call.op] \in {"idle", "inflight"}
    /\ SaveStateCall(k, v)

RecoverInit ==
    /\ call = [kind |-> "operation", op |-> "A", hashable |-> TRUE]
    /\ \E p \in [rollback : BOOLEAN, timeout : {FALSE}, max_retries : 0..MaxRetries] :
         operations = [o \in Ops |-> MakeOperation(p, {}, 0)]
    /\ max_parallel = MaxParallel
    /\ patterns = 0
    /\ OrchStart

InitRecover == StateInit /\ RecoverInit /\ CacheInit /\ GuardIdle

NextRecover ==
    \/ ExecuteOperationCall
    \/ \E k \in Keys, v \in Values : RecoverSaveState(k, v)
    \/ \E o \in Ops : Validate(o)
    \/ \E o \in Ops : PreValidation(o)
    \/ \E o \in Ops : CreateCheckpointForOp(o)
    \/ \E o \in Ops : ExecutorCompletes(o)
    \/ \E o \in Ops : PostValidation(o)
    \/ \E o \in Ops : RetryAfterBackoff(o)
    \/ \E o \in Ops : Rollback(o)

SpecRecover == InitRecover /\ [][NextRecover]_vars

\* the exceptions an attempt hands to _handle_failure
FailureErrors == {"ValueError", "RuntimeError", "ExecutorError", "TimeoutError"}

\* _handle_failure is past its retry branch: an attempt of o ends in this
\* step with an exception and is not retried
Exhausted(o) ==
    /\ pc[o] \in {"pre", "inflight", "post"}
    /\ pc'[o] \in {"rollback", "done"}
    /\ ~(pc[o] = "post" /\ op_result'[o] = op_result[o])

\* C19: an operation with a rollback hook whose retries are exhausted and
\* whose attempt took a checkpoint has its hook invoked with the store as it
\* is, and when the hook has returned restore_checkpoint is called with the
\* checkpoint id of that attempt and ROLLED_BACK is returned with the last
\* error; create_checkpoint is called only for an operation with a rollback
\* hook, after its validation and right before its executor call; an
\* operation without the hook never has a checkpoint and ends FAILED with
\* the last error.
C19_RollbackThenRestore ==
    /\ [](\A o \in Ops : ~operations[o].rollback =>
            /\ checkpoint_id[o] = NoCheckpoint
            /\ pc[o] \notin {"ckpt", "rollback"}
            /\ op_result[o].status # "ROLLED_BACK")
    /\ [][snapshots' # snapshots =>
            \E o \in Ops : /\ operations[o].rollback
                           /\ validated[o]
                           /\ pc[o] = "ckpt" /\ pc'[o] = "inflight"
                           /\ exec_calls'[o] = exec_calls[o] + 1
                           /\ snapshots' = Append(snapshots, Snapshot(store, now, persisted))
                           /\ checkpoint_id'[o] = Len(snapshots')]_vars
    /\ [][\A o \in Ops :
            /\ Exhausted(o) =>
                  /\ retry_count[o] = operations[o].max_retries
                  /\ IF operations[o].rollback /\ checkpoint_id[o] # NoCheckpoint
                     THEN /\ pc'[o] = "rollback"
                          /\ checkpoint_id'[o] = checkpoint_id[o]
                          /\ last_error'[o] \in FailureErrors
                          /\ store' = store
                     ELSE /\ pc'[o] = "done"
                          /\ op_result'[o].status = "FAILED"
                          /\ op_result'[o].error \in FailureErrors
                          /\ pc[o] = "inflight" => op_result'[o].error = exec_error'[o]
                          /\ store' = store
            /\ (pc[o] = "rollback" /\ pc'[o] # "rollback") =>
                  /\ pc'[o] = "done"
                  /\ op_result'[o].error = last_error[o]
                  /\ \/ /\ op_result'[o].status = "ROLLED_BACK"
                        /\ store' = RestoredStore(snapshots[checkpoint_id[o]])
                     \/ /\ op_result'[o].status = "FAILED"
                        /\ store' = store
            /\ (op_result'[o].status = "ROLLED_BACK" /\ op_result[o].status # "ROLLED_BACK")
                  => pc[o] = "rollback"]_vars

\* the operation was retried once, each attempt took a checkpoint, the
\* executor wrote k1 in the second attempt, and the rollback restored the
\* second checkpoint, taken when k1 was not held
C19_Witness ==
    /\ op_result["A"].status = "ROLLED_BACK"
    /\ op_result["A"].error = "ExecutorError"
    /\ retry_count["A"] = 1 /\ exec_calls["A"] = 2
    /\ Len(snapshots) = 2
    /\ last_call.op = "save"
    /\ store = RestoredStore(snapshots[2])
    /\ "k1" \notin DOMAIN store

\* C20: when execute_operation has returned ROLLED_BACK, load_state reads
\* every key as it did when execute_operation was called: no write made
\* during an attempt of the operation, the attempts before the last one
\* included, is left.
C20_RolledBackToFirstAttempt ==
    \A o \in Ops :
        (pc[o] = "done" /\ op_result[o].status = "ROLLED_BACK")
            => LoadView(store, now) = view_before[o]

ReturnedFailed(o) == pc[o] = "post" /\ op_result[o].status = "FAILED"

\* C28: a retry or a rollback is entered only with the error of a raising or
\* timed-out attempt (a validation hook that fails raises too); when the
\* executor has returned a FAILED result and post_validation does not reject
\* it, execute_operation returns that result unchanged: retry_count, the
\* executor call count, the store and the checkpoints stay as they are, no
\* rollback hook is awaited, even with retries left and a rollback hook set.
C28_ReturnedFailureIsNotRetried ==
    [][\A o \in Ops :
        /\ (pc'[o] \in {"backoff", "rollback"} /\ pc'[o] # pc[o]) =>
              last_error'[o] \in FailureErrors
        /\ (pc[o] = "inflight" /\ pc'[o] = "post") =>
              /\ retry_count'[o] = retry_count[o]
              /\ store' = store
        /\ (ReturnedFailed(o) /\ pc'[o] # "post" /\ last_error'[o] # "RuntimeError"
                              /\ op_result'[o].error # "RuntimeError") =>
              /\ pc'[o] = "done"
              /\ op_result'[o] = op_result[o]
              /\ retry_count'[o] = retry_count[o]
              /\ exec_calls'[o] = exec_calls[o]
              /\ store' = store /\ snapshots' = snapshots]_vars

\* the executor wrote k1 after the checkpoint and returned FAILED: the
\* operation is done with that result, not retried although a retry was
\* left, and not rolled back although it has a hook and a checkpoint
C28_Witness ==
    /\ pc["A"] = "done"
    /\ op_result["A"] = [operation_id |-> ActionId("A"), status |-> "FAILED", error |-> "ActionError"]
    /\ operations["A"].rollback /\ operations["A"].max_retries = 1
    /\ retry_count["A"] = 0 /\ exec_calls["A"] = 1
    /\ Len(snapshots) = 1
    /\ "k1" \in DOMAIN store /\ "k1" \notin DOMAIN snapshots[1].data

(***************************************************************************)
(* execute_operation of one operation with up to three retries             *)
(***************************************************************************)
MaxBackoffRetries == 3

BackoffInit ==
    /\ call = [kind |-> "operation", op |-> "A", hashable |-> TRUE]
    /\ \E p \in [rollback : BOOLEAN, timeout : BOOLEAN, max_retries : 0..MaxBackoffRetries],
          rc \in 0..1 :
         /\ rc <= p.max_retries
         /\ operations = [o \in Ops |-> MakeOperation(p, {}, rc)]
    /\ max_parallel = MaxParallel
    /\ patterns = 0
    /\ OrchStart

InitBackoff == StateInit /\ BackoffInit /\ CacheInit /\ GuardIdle

NextBackoff ==
    \/ ExecuteOperationCall
    \/ \E o \in Ops : Validate(o)
    \/ \E o \in Ops : PreValidation(o)
    \/ \E o \in Ops : CreateCheckpointForOp(o)
    \/ \E o \in Ops : ExecutorCompletes(o)
    \/ \E o \in Ops : PostValidation(o)
    \/ \E o \in Ops : RetryAfterBackoff(o)
    \/ \E o \in Ops : Rollback(o)

SpecBackoff == InitBackoff /\ [][NextBackoff]_vars

\* the retries o has made since it was submitted
Retries(o) == retry_count[o] - operations[o].retry_count

\* C30: the retry that brings retry_count to k is preceded by one sleep of
\* 2^k seconds: the delays of an operation are 2^k for the successive values
\* k of retry_count (2, 4, 8 for an operation submitted with retry_count 0)
\* and strictly increase; a sleep is started only with a retry left, and
\* execute_operation is entered again only out of that sleep.
C30_BackoffDoubles ==
    /\ [](\A o \in Ops :
            /\ Len(sleeps[o]) = Retries(o)
            /\ \A k \in 1..Len(sleeps[o]) : sleeps[o][k] = 2 ^ (operations[o].retry_count + k)
            /\ \A k \in 1..(Len(sleeps[o]) - 1) : sleeps[o][k] < sleeps[o][k + 1]
            /\ pc[o] = "backoff" => sleeps[o][Len(sleeps[o])] = 2 ^ retry_count[o])
    /\ [][\A o \in Ops :
            /\ sleeps'[o] # sleeps[o] =>
                  /\ retry_count[o] < operations[o].max_retries
                  /\ retry_count'[o] = retry_count[o] + 1
                  /\ sleeps'[o] = Append(sleeps[o], 2 ^ retry_count'[o])
                  /\ pc'[o] = "backoff"
            /\ (pc[o] # "backoff" /\ pc'[o] = "backoff") => Len(sleeps'[o]) = Len(sleeps[o]) + 1
            /\ (pc[o] \notin {"idle", "validate"} /\ pc'[o] = "validate") => pc[o] = "backoff"
            /\ (retry_count[o] = operations[o].max_retries) => sleeps'[o] = sleeps[o]]_vars

\* an operation submitted with retry_count 0 and max_retries 3 has slept 2, 4
\* and 8 seconds and ended FAILED after its fourth attempt timed out
C30_Witness ==
    /\ pc["A"] = "done"
    /\ operations["A"].retry_count = 0
    /\ sleeps["A"] = <<2, 4, 8>>
    /\ exec_calls["A"] = 4
    /\ op_result["A"].status = "FAILED"
    /\ op_result["A"].error = "TimeoutError"

(***************************************************************************)
(* execute_parallel of a wave whose executors write state                  *)
(***************************************************************************)
\* the key the executor of an operation of the first wave writes
KeyOf(o) == IF o = "A" THEN "k1" ELSE "k2"

\* the executor of A or B calls save_state on its own key while its call is
\* in flight
WaveSaveState(o, v) ==
    /\ o \in {"A", "B"}
    /\ pc[o] = "inflight"
    /\ SaveStateCall(KeyOf(o), v)

WaveInit ==
    /\ call = [kind |-> "parallel", op |-> "A", hashable |-> TRUE]
    /\ \E p \in [rollback : BOOLEAN, timeout : {FALSE}, max_retries : {0}] :
         operations = [o \in Ops |-> MakeOperation(p, FanIn[o], 0)]
    /\ max_parallel = MaxParallel
    /\ patterns = 0
    /\ OrchStart

InitWave == StateInit /\ WaveInit /\ CacheInit /\ GuardIdle

NextWave ==
    \/ ExecuteParallelCall
    \/ WaveCollect
    \/ \E o \in Ops, v \in Values \ {"None"} : WaveSaveState(o, v)
    \/ \E o \in Ops : Validate(o)
    \/ \E o \in Ops : PreValidation(o)
    \/ \E o \in Ops : CreateCheckpointForOp(o)
    \/ \E o \in Ops : ExecutorCompletes(o)
    \/ \E o \in Ops : PostValidation(o)
    \/ \E o \in Ops : Rollback(o)

SpecWave == InitWave /\ [][NextWave]_vars

\* C31: what an operation of a wave that ended SUCCESS has written through
\* the state manager stays as it is in every later step of execute_parallel,
\* the rollback of a sibling of the same wave included, and is there when
\* the wave has been collected.
C31_SiblingStateSurvivesRollback ==
    [][\A s \in {"A", "B"} :
        (/\ pc[s] = "done" /\ op_result[s].status = "SUCCESS"
         /\ KeyOf(s) \in DOMAIN store)
            => /\ KeyOf(s) \in DOMAIN store'
               /\ store'[KeyOf(s)] = store[KeyOf(s)]]_vars

(***************************************************************************)
(* suggest_optimizations over a list of three operations                   *)
(***************************************************************************)
\* the action types and targets submitted (ActionType; a target is a
\* Coordinate, a string or None)
SuggestTypes   == {"CLICK", "TYPE", "KEY", "EXECUTE"}
SuggestTargets == {"None", "t1", "t2"}

\* _can_parallelize: sequential_types
SequentialTypes == {"TYPE", "EXECUTE"}

\* a _can_parallelize that looks at the targets only
CanParallelizeAnyType(op1, op2) == op1.action.target # op2.action.target

\* _can_parallelize(op1, op2)
CanParallelize(op1, op2) ==
    IF op1.action.target = op2.action.target THEN FALSE
    ELSE IF op1.action.type \in SequentialTypes \/ op2.action.type \in SequentialTypes THEN FALSE
    ELSE TRUE

Parallelize(a, b) ==
    [type |-> "parallelize", operations |-> <<a, b>>,
     reason |-> "No dependencies between operations"]

\* the first loop: one suggestion per position i of operations[:-1] that passes
ParallelizeSuggestions(ops) ==
    LET passing == SelectSeq([i \in 1..(Len(OpList) - 1) |-> i],
                             LAMBDA i : /\ ops[OpList[i + 1]].dependencies = {}
                                        /\ CanParallelize(ops[OpList[i]], ops[OpList[i + 1]]))
    IN  [j \in 1..Len(passing) |-> Parallelize(OpList[passing[j]], OpList[passing[j] + 1])]

\* the second loop, from position i on, with the dict seen
RECURSIVE CacheSuggestions(_, _, _)
CacheSuggestions(ops, i, seen) ==
    IF i > Len(OpList) THEN <<>>
    ELSE LET o   == OpList[i]
             key == <<ops[o].action.type, ops[o].action.target>>
         IN  IF key \in DOMAIN seen
             THEN <<[type |-> "cache", operation |-> o, similar_to |-> seen[key],
                     reason |-> "Duplicate operation detected"]>>
                  \o CacheSuggestions(ops, i + 1, seen)
             ELSE CacheSuggestions(ops, i + 1,
                     [k \in DOMAIN seen \cup {key} |-> IF k = key THEN o ELSE seen[k]])

\* a caller invokes suggest_optimizations(OpList); it awaits nothing
SuggestOptimizations ==
    /\ call.kind = "suggest"
    /\ ~suggestions.returned
    /\ suggestions' = [returned |-> TRUE,
                       list |-> ParallelizeSuggestions(operations)
                                \o CacheSuggestions(operations, 1, <<>>)]
    /\ UNCHANGED <<seq_pc, seq_pos, view_before>>
    /\ UNCHANGED <<stateVars, call, operations, max_parallel, opVars, parVars, cacheVars, guardVars>>

SuggestInputs ==
    [Ops -> [type : SuggestTypes, target : SuggestTargets, dependencies : {{}, {Foreign}}]]

SuggestInit ==
    /\ call = [kind |-> "suggest", op |-> "A", hashable |-> TRUE]
    /\ \E inp \in SuggestInputs :
         operations = [o \in Ops |->
            [MakeOperation([rollback |-> FALSE, timeout |-> FALSE, max_retries |-> 0],
                           inp[o].dependencies, 0)
             EXCEPT !.action = [type |-> inp[o].type, target |-> inp[o].target]]]
    /\ max_parallel = MaxParallel
    /\ patterns = 0
    /\ OrchStart

InitSuggest == StateInit /\ SuggestInit /\ CacheInit /\ GuardIdle

NextSuggest == SuggestOptimizations

SpecSuggest == InitSuggest /\ [][NextSuggest]_vars

\* the operations at positions i and i + 1 of the list
Independent2(i) ==
    /\ operations[OpList[i]].action.target # operations[OpList[i + 1]].action.target
    /\ operations[OpList[i]].dependencies = {}
    /\ operations[OpList[i + 1]].dependencies = {}
    /\ operations[OpList[i]].action.type \notin {"TYPE", "EXECUTE"}
    /\ operations[OpList[i + 1]].action.type \notin {"TYPE", "EXECUTE"}

Excluded2(i) ==
    \/ operations[OpList[i]].action.target = operations[OpList[i + 1]].action.target
    \/ operations[OpList[i]].action.type \in {"TYPE", "EXECUTE"}
    \/ operations[OpList[i + 1]].action.type \in {"TYPE", "EXECUTE"}

SuggestedPairs ==
    {suggestions.list[j].operations :
        j \in {x \in 1..Len(suggestions.list) : suggestions.list[x].type = "parallelize"}}

\* C17: what suggest_optimizations returns holds a "parallelize" suggestion
\* naming both ids for every adjacent pair with different targets, no
\* dependencies and no TYPE or EXECUTE action, and none for an adjacent pair
\* that shares its target or has a TYPE or EXECUTE action; the call leaves
\* the operations and the state of the orchestrator as they are.
C17_ParallelizeSuggestions ==
    /\ [](suggestions.returned =>
            \A i \in 1..(Len(OpList) - 1) :
                /\ Independent2(i) => <<OpList[i], OpList[i + 1]>> \in SuggestedPairs
                /\ Excluded2(i) => <<OpList[i], OpList[i + 1]>> \notin SuggestedPairs)
    /\ [][suggestions' # suggestions =>
            UNCHANGED <<operations, max_parallel, opVars, parVars, stateVars>>]_vars

\* A (click on t1) and B (key on t2) are reported, B and C (execute on t1) are not
C17_Witness ==
    /\ suggestions.returned
    /\ Independent2(1)
    /\ operations["B"].action.type = "KEY"
    /\ operations["C"].action.type = "EXECUTE"
    /\ operations["C"].action.target # operations["B"].action.target
    /\ SuggestedPairs = {<<"A", "B">>}

(***************************************************************************)
(* StateManager alone: direct calls of its methods, and the clock          *)
(***************************************************************************)
CheckpointIds  == 1..MaxCheckpoints
TransactionIds == 1..MaxTxns

InitState == StateInit /\ OrchIdle /\ CacheInit /\ GuardIdle

NextState ==
    \/ \E k \in Keys, v \in Values : SaveState(k, v)
    \/ \E k \in Keys : DeleteState(k)
    \/ \E k \in Keys : LoadState(k)
    \/ CreateCheckpoint
    \/ \E id \in CheckpointIds : RestoreCheckpoint(id)
    \/ BeginTransaction
    \/ \E id \in TransactionIds : CommitTransaction(id)
    \/ \E id \in TransactionIds : RollbackTransaction(id)
    \/ Tick

SpecState == InitState /\ [][NextState]_vars

\* C6: after restore_checkpoint(id) has returned, load_state reads every key
\* as it did when checkpoint id was created: a key held then has the value it
\* had then, a key held only afterwards is gone.
C6_RestoreReplacesKeySpace ==
    (last_call.op = "restore" /\ sm_error = "none")
        => LoadView(store, now) = view_at[last_call.id]

\* restored over a store in which one checkpointed key had been changed or
\* deleted and another key had been created since
C6_Witness ==
    /\ last_call.op = "restore" /\ sm_error = "none"
    /\ last_call.changed = Keys
    /\ view_at[last_call.id]["k1"] = "v1"
    /\ view_at[last_call.id]["k2"] = "None"
    /\ StoreGet(store, now, "k1") = "v1"
    /\ "k2" \notin DOMAIN store

(***************************************************************************)
(* Transactions of the StateManager: writes, loads and the transaction     *)
(* calls of concurrent tasks in any order, without checkpoints             *)
(***************************************************************************)
MaxQueued == 2   \* writes queued in one transaction
MaxBegun  == 2   \* transactions begun

QueueHasRoom ==
    current_transaction.open => Len(current_transaction.operations) < MaxQueued

TxnSaveState(k, v) == QueueHasRoom /\ SaveStateCall(k, v)

TxnDeleteState(k) == QueueHasRoom /\ DeleteStateCall(k)

TxnBegin ==
    /\ current_transaction.open \/ txn_count < MaxBegun
    /\ BeginTransactionCall

\* the ids handed to commit and rollback: those of the transactions begun
BegunIds == 1..MaxBegun

InitTxn == StateInit /\ OrchIdle /\ CacheInit /\ GuardIdle

NextTxn ==
    \/ \E k \in Keys, v \in Values : TxnSaveState(k, v)
    \/ \E k \in Keys : TxnDeleteState(k)
    \/ \E k \in Keys : LoadState(k)
    \/ TxnBegin
    \/ \E id \in BegunIds : CommitTransaction(id)
    \/ \E id \in BegunIds : RollbackTransaction(id)
    \/ Tick

SpecTxn == InitTxn /\ [][NextTxn]_vars

\* this step is a call of the StateManager method op
IsCall(op) ==
    /\ last_call'.op = op
    /\ <<last_call, sm_error, current_transaction>>' # <<last_call, sm_error, current_transaction>>

\* the id given to the commit or rollback of this step is not the open transaction's
WrongId == ~current_transaction.open \/ current_transaction.id # last_call'.id

Held(s, k) == IF k \in DOMAIN s THEN s[k].value ELSE Deleted

\* C16: commit_transaction applies the queued writes in the order they were
\* issued: after the commit every key written in the transaction holds what
\* the save_state and delete_state calls, applied one by one as they were
\* issued, leave there (stored at commit time), every other key is untouched,
\* and the transaction is closed.
C16_CommitAppliesInOrder ==
    [][(IsCall("commit") /\ ~WrongId) =>
          /\ sm_error' = "none"
          /\ current_transaction' = NoTransaction
          /\ \A k \in DOMAIN direct :
                /\ Held(store', k) = direct[k]
                /\ direct[k] # Deleted => store'[k] = Entry(direct[k], TtlTicks, now)
          /\ \A k \in Keys \ DOMAIN direct :
                /\ Held(store', k) = Held(store, k)
                /\ k \in DOMAIN store => store'[k] = store[k]
      ]_vars

\* a transaction that saved k1 twice with different values was committed: the
\* later value is stored
C16_Witness ==
    /\ last_call.op = "commit"
    /\ sm_error = "none"
    /\ "k1" \in last_call.changed
    /\ "k1" \in DOMAIN store
    /\ store["k1"].value = "v2"

(***************************************************************************)
(* Transaction calls of concurrent tasks.  begin_transaction and           *)
(* rollback_transaction await nothing; commit_transaction awaits one store *)
(* call per queued write, and with the file and redis backends a store     *)
(* call suspends, so other tasks run while a commit is under way.          *)
(***************************************************************************)
MaxTaskBegun == 3   \* transactions begun by the tasks

TaskBegin ==
    /\ current_transaction.open \/ txn_count < MaxTaskBegun
    /\ BeginTransactionCall

TaskIds == 1..MaxTaskBegun

\* the tasks write one key
TaskKeys == {"k1"}

\* the list the suspended commit iterates: the operations of its transaction,
\* to which save_state and delete_state append while it is the current one
CommitList ==
    IF current_transaction.open /\ current_transaction.id = commit_task.id
    THEN current_transaction.operations
    ELSE commit_task.ops

\* commit_transaction(id) up to its first store call (one commit_transaction
\* call is under way at a time)
CommitStart(id) ==
    /\ ~commit_task.active
    /\ IF ~current_transaction.open \/ current_transaction.id # id
       THEN /\ sm_error' = "ValueError"
            /\ UNCHANGED <<current_transaction, direct, open_ids, commit_task, commit_base>>
       ELSE IF current_transaction.operations = <<>>
       THEN /\ current_transaction' = NoTransaction
            /\ direct' = NoWrites
            /\ open_ids' = open_ids \ {id}
            /\ sm_error' = "none"
            /\ UNCHANGED <<commit_task, commit_base>>
       ELSE /\ commit_task' = [active |-> TRUE, id |-> id, pos |-> 1, ops |-> <<>>]
            /\ commit_base' = store
            /\ sm_error' = "none"
            /\ UNCHANGED <<current_transaction, direct, open_ids>>
    /\ last_call' = Called("commit", id)
    /\ UNCHANGED <<store, persisted, snapshots, now, txn_count, view_at, history_saved,
                   history_read>>
    /\ UNCHANGED <<orchVars, cacheVars, guardVars>>

\* the store call of the suspended commit returns: the write is in the store;
\* the loop goes on to the next queued write or ends, and then the current
\* transaction, whichever it is by now, is marked committed and cleared
\* (AttributeError when there is none)
CommitStep ==
    /\ commit_task.active
    /\ store' = ApplyOperations(store, now, <<CommitList[commit_task.pos]>>)
    /\ IF commit_task.pos < Len(CommitList)
       THEN /\ commit_task' = [commit_task EXCEPT !.pos = @ + 1]
            /\ UNCHANGED <<current_transaction, direct, open_ids, sm_error, commit_base>>
       ELSE /\ commit_task' = NoCommit
            /\ commit_base' = EmptyStore
            /\ IF current_transaction.open
               THEN /\ current_transaction' = NoTransaction
                    /\ direct' = NoWrites
                    /\ open_ids' = open_ids \ {commit_task.id}
                    /\ sm_error' = "none"
               ELSE /\ sm_error' = "AttributeError"
                    /\ UNCHANGED <<current_transaction, direct, open_ids>>
    /\ last_call' = Called("resume", commit_task.id)
    /\ UNCHANGED <<persisted, snapshots, now, txn_count, view_at, history_saved,
                   history_read>>
    /\ UNCHANGED <<orchVars, cacheVars, guardVars>>

InitTasks == StateInit /\ OrchIdle /\ CacheInit /\ GuardIdle

NextTasks ==
    \/ \E k \in TaskKeys, v \in Values : TxnSaveState(k, v)
    \/ \E k \in TaskKeys : TxnDeleteState(k)
    \/ TaskBegin
    \/ \E id \in TaskIds : CommitStart(id)
    \/ CommitStep
    \/ \E id \in TaskIds : RollbackTransaction(id)

SpecTasks == InitTasks /\ [][NextTasks]_vars

\* C14: at most one transaction is open at any time, whatever the order in
\* which the tasks' begin, commit and rollback calls and their resumptions
\* run. begin_transaction while one is open raises and leaves the transaction,
\* its queue and the store as they are; commit and rollback with an id other
\* than the open transaction's raise and change nothing.
C14_OneOpenTransaction ==
    /\ [](Cardinality(open_ids) <= 1)
    /\ [][/\ (IsCall("begin") /\ current_transaction.open) =>
                /\ sm_error' = "RuntimeError"
                /\ current_transaction' = current_transaction
                /\ txn_count' = txn_count
                /\ store' = store
          /\ ((IsCall("commit") \/ IsCall("rollback")) /\ WrongId) =>
                /\ sm_error' = "ValueError"
                /\ current_transaction' = current_transaction
                /\ txn_count' = txn_count
                /\ store' = store
         ]_vars

(***************************************************************************)
(* LRUCache alone                                                          *)
(***************************************************************************)
InitCache == StateInit /\ OrchIdle /\ CacheInit /\ GuardIdle

NextCache ==
    \/ \E k \in CacheKeys : CacheGet(k)
    \/ \E k \in CacheKeys, v \in CacheValues, ttl \in CacheTtls : CacheSet(k, v, ttl)
    \/ CacheClear
    \/ Tick

SpecCache == InitCache /\ [][NextCache]_vars

\* the step is a set of a key the cache does not hold, into a cache that holds
\* max_size entries of which exactly one was not read since the last set, the
\* byte budget leaving room for the new entry
C7_Case ==
    /\ cache_last'.op = "set"
    /\ cache_last'.key \notin Range(cache_order)
    /\ Len(cache_order) = MaxSize
    /\ Cardinality(Range(cache_order) \ read_set) = 1
    /\ cache_last'.key \in DOMAIN cache_entries'
    /\ total_size + cache_entries'[cache_last'.key].size_bytes <= MaxMemoryBytes

\* C7: such a set evicts exactly the one key that was not read; the keys that
\* were read stay in the cache with their entries, next to the new key.
C7_EvictsTheUnreadKey ==
    [][C7_Case =>
         /\ cache_last'.evicted = Range(cache_order) \ read_set
         /\ Range(cache_order') = read_set \cup {cache_last'.key}
         /\ \A k \in read_set : /\ k \in DOMAIN cache_entries'
                                /\ cache_entries'[k] = cache_entries[k]]_vars

\* the unread key was evicted although it was not the first one inserted
C7_Witness ==
    /\ cache_last.op = "set" /\ cache_last.fresh /\ cache_last.full
    /\ Cardinality(cache_last.unread) = 1
    /\ cache_last.evicted = cache_last.unread
    /\ cache_last.evicted = {2}
    /\ Range(cache_order) = {1, 3}
    /\ total_size = 2 * DefaultSize

RECURSIVE SumSizes(_, _)
SumSizes(entries, keys) ==
    IF keys = {} THEN 0
    ELSE LET k == CHOOSE x \in keys : TRUE
         IN  entries[k].size_bytes + SumSizes(entries, keys \ {k})

\* C8: between calls the cache holds at most max_size entries, _total_size is
\* the sum of their size_bytes, and it is within max_memory_bytes.
C8_SizeAccounting ==
    /\ Len(cache_order) <= MaxSize
    /\ Range(cache_order) = DOMAIN cache_entries
    /\ total_size = SumSizes(cache_entries, DOMAIN cache_entries)
    /\ total_size <= MaxMemoryBytes

\* an entry was replaced by a larger one, and the byte budget (not the entry
\* count) evicted another entry
C8_Witness ==
    /\ cache_last.op = "set" /\ ~cache_last.fresh
    /\ cache_last.evicted # {}
    /\ cache_last.key \in DOMAIN cache_entries
    /\ Len(cache_order) < MaxSize
    /\ total_size = MaxMemoryBytes \div 2 + 1

(***************************************************************************)
(* SecurityGuardian alone                                                  *)
(***************************************************************************)
InitGuard == StateInit /\ OrchIdle /\ CacheInit /\ GuardInit

ContextIds == 1..MaxContexts

NextGuard ==
    \/ \E name \in ActionNames : ValidateAction(name)
    \/ ValidateResume
    \/ \E id \in CustomRules : AddRule(id)
    \/ \E id \in CustomRules \cup {"sys_cmd_blacklist"} : RemoveRule(id)
    \/ \E i \in ContextIds : EnterSandbox(i)
    \/ \E i \in ContextIds : ExitSandbox(i)
    \/ Tick

SpecGuard == InitGuard /\ [][NextGuard]_vars

\* C9: a validate_action that found sandbox_mode true for an EXECUTE or GITHUB
\* action returned (False, "Action not allowed in sandbox mode").
C9_SandboxRefusesPrivileged ==
    (/\ verdict.returned
     /\ verdict.sandbox
     /\ ActionTable[verdict.action].type \in {"EXECUTE", "GITHUB"})
        => /\ ~verdict.allowed
           /\ verdict.reason = "Action not allowed in sandbox mode"

\* a GITHUB action is refused in sandbox mode although no rule objects to it
\* and its confirmation is cached as granted
C9_Witness ==
    /\ verdict.returned /\ verdict.sandbox
    /\ verdict.action = "github_rm"
    /\ ~verdict.allowed
    /\ \A i \in 1..Len(verdict.rules) :
          Violation["github_rm", verdict.rules[i]] = NoViolation
    /\ "github_rm" \in DOMAIN confirmation_cache
    /\ confirmation_cache["github_rm"].result

\* the text contains the part
Contains(text, part) ==
    \E i \in 1..(Len(text) - Len(part) + 1) : SubSeq(text, i, i + Len(part) - 1) = part

\* a blacklist rule for `rm -rf /`: one whose pattern is that text, or the
\* default rule, whose pattern has it as an alternative
BlacklistsRm(id) ==
    /\ Rule(id).type = "BLACKLIST"
    /\ \/ Rule(id).pattern = RmPattern
       \/ \E i \in 1..Len(BlacklistedCommands) :
             BlacklistedCommands[i] = RmPattern /\ id = "sys_cmd_blacklist"

\* C10: a validate_action that found sandbox_mode false and, among the rules,
\* a blacklist rule for `rm -rf /` applying to the type of the action, refused
\* the action if its value contains `rm -rf /`.
C10_BlacklistRejects ==
    (/\ verdict.returned
     /\ ~verdict.sandbox
     /\ Contains(ActionTable[verdict.action].value, RmPattern)
     /\ \E i \in 1..Len(verdict.rules) :
           /\ BlacklistsRm(verdict.rules[i])
           /\ \/ Rule(verdict.rules[i]).actions = {}
              \/ ActionTable[verdict.action].type \in Rule(verdict.rules[i]).actions)
        => ~verdict.allowed

\* a GITHUB action with the text inside its value is refused by the added
\* rule alone, the default blacklist being for EXECUTE actions
C10_Witness ==
    /\ verdict.returned /\ ~verdict.sandbox
    /\ verdict.action = "github_rm"
    /\ ~verdict.allowed
    /\ verdict.rule = "custom_rm"
    /\ verdict.reason = "Custom blacklist: Blacklisted pattern matched"

\* the rule applies to the action: its action-type list is empty or holds the
\* action's type
Applies(id, name) ==
    Rule(id).actions = {} \/ ActionTable[name].type \in Rule(id).actions

\* the rule does not reject the action: it is skipped or finds no violation
Passes(id, name) == ~Applies(id, name) \/ Violation[name, id] = NoViolation

\* the sequence without the rules of that id
Others(rs, id) == SelectSeq(rs, LAMBDA r : r # id)

\* C32: a validate_action that got past the sandbox check returned the
\* rejection "{message}: {detail}" of the first rule, in list order, that
\* applies to the action's type and is violated, whatever the rules after it
\* say, and did not reject by a rule when every rule passes; add_rule and
\* remove_rule leave the other rules in their relative order.
C32_FirstViolatedRuleDecides ==
    /\ [](verdict.returned /\ verdict.reason # "Action not allowed in sandbox mode" =>
            LET name == verdict.action
                rs   == verdict.rules
            IN  IF \A i \in 1..Len(rs) : Passes(rs[i], name)
                THEN verdict.rule = "none"
                ELSE \E i \in 1..Len(rs) :
                        /\ ~Passes(rs[i], name)
                        /\ \A j \in 1..(i - 1) : Passes(rs[j], name)
                        /\ verdict.rule = rs[i]
                        /\ ~verdict.allowed
                        /\ verdict.reason = Rule(rs[i]).message \o ": "
                                            \o Violation[name, rs[i]])
    /\ [][rules' # rules =>
            \E id \in RuleIds :
               /\ Others(rules', id) = Others(rules, id)
               /\ \/ rules' = Append(rules, id)
                  \/ id \notin Range(rules')]_vars

\* an EXECUTE action that violates the default blacklist and the rule added
\* after it is rejected with the default rule's message; and a GITHUB action
\* is rejected by the added rule, the default blacklist being skipped
C32_Witness ==
    /\ verdict.returned /\ ~verdict.sandbox
    /\ verdict.action = "exec_rm"
    /\ verdict.rules = Append(DefaultRules, "custom_rm")
    /\ verdict.rule = "sys_cmd_blacklist"
    /\ verdict.reason = "Dangerous system command detected: Blacklisted pattern matched"

\* the event validate_action logs for what it returned
OutcomeEvent(v) ==
    IF v.allowed THEN "validation_passed"
    ELSE IF v.reason = "User denied permission" THEN "user_denied"
    ELSE "validation_failed"

\* C33: a validate_action that returned has appended one entry for its
\* outcome to the audit log, on the sandbox refusal as on the rule rejection,
\* the denied confirmation and the acceptance; the entry records the action,
\* sandbox_mode and the event.
C33_OutcomeIsAudited ==
    verdict.returned =>
        /\ Len(verdict.logged) = 1
        /\ verdict.logged[1] = [event |-> OutcomeEvent(verdict), action |-> verdict.action,
                                sandbox_mode |-> verdict.sandbox]

(***************************************************************************)
(* _audit_log called by concurrent tasks                                   *)
(***************************************************************************)
\* the number of the entry the next _audit_log call appends
NextEntry == AuditFlushAt + audit_count

\* _audit_log up to its first suspension: the entry is appended; with
\* AuditFlushAt entries or more _persist_audit_log is entered, which makes
\* the file name from the clock and suspends opening the file
AuditLogCall(t) ==
    /\ audit_task[t].pc = "idle"
    /\ audit_count < MaxAuditEntries
    /\ audit_count' = audit_count + 1
    /\ audit_entries' = Append(audit_entries, NextEntry)
    /\ audit_log' = Len(audit_entries')
    /\ audit_task' = [audit_task EXCEPT ![t] =
                         IF Len(audit_entries') >= AuditFlushAt
                         THEN [pc |-> "open", name |-> now, content |-> <<>>]
                         ELSE NoAuditTask]
    /\ UNCHANGED audit_files
    /\ UNCHANGED <<sandbox_mode, sandbox_contexts, rules, confirmation_cache,
                   validate_calls, validating, verdict, sandbox_trace>>
    /\ UNCHANGED <<stateVars, orchVars, cacheVars>>

\* the file is open (mode 'w' empties it): json.dumps takes the log as it is
\* now, and the task suspends writing it
PersistOpened(t) ==
    /\ audit_task[t].pc = "open"
    /\ audit_files' = [f \in DOMAIN audit_files \cup {audit_task[t].name} |->
                          IF f = audit_task[t].name THEN <<>> ELSE audit_files[f]]
    /\ audit_task' = [audit_task EXCEPT ![t].pc = "write", ![t].content = audit_entries]
    /\ UNCHANGED <<audit_entries, audit_log, audit_count>>
    /\ UNCHANGED <<sandbox_mode, sandbox_contexts, rules, confirmation_cache,
                   validate_calls, validating, verdict, sandbox_trace>>
    /\ UNCHANGED <<stateVars, orchVars, cacheVars>>

\* the text is written and the file closed: the in-memory log is cleared
PersistWritten(t) ==
    /\ audit_task[t].pc = "write"
    /\ audit_files' = [f \in DOMAIN audit_files \cup {audit_task[t].name} |->
                          IF f = audit_task[t].name THEN audit_task[t].content
                          ELSE audit_files[f]]
    /\ audit_entries' = <<>>
    /\ audit_log' = 0
    /\ audit_task' = [audit_task EXCEPT ![t] = NoAuditTask]
    /\ UNCHANGED audit_count
    /\ UNCHANGED <<sandbox_mode, sandbox_contexts, rules, confirmation_cache,
                   validate_calls, validating, verdict, sandbox_trace>>
    /\ UNCHANGED <<stateVars, orchVars, cacheVars>>

InitAudit == StateInit /\ OrchIdle /\ CacheInit /\ GuardInit /\ audit_log = AuditFlushAt - 1

NextAudit ==
    \/ \E t \in AuditTasks : AuditLogCall(t)
    \/ \E t \in AuditTasks : PersistOpened(t)
    \/ \E t \in AuditTasks : PersistWritten(t)
    \/ Tick

SpecAudit == InitAudit /\ [][NextAudit]_vars

\* how many places hold the entry: the in-memory log and the files
Copies(e) ==
    (IF e \in Range(audit_entries) THEN 1 ELSE 0)
    + Cardinality({f \in DOMAIN audit_files : e \in Range(audit_files[f])})

\* C34: when no _audit_log call is under way, the in-memory log holds fewer
\* than AuditFlushAt entries and every entry ever appended is in exactly one
\* place, the in-memory log or one file: a flush neither loses nor duplicates
\* an entry, also when calls of other tasks come while it is in progress.
C34_FlushKeepsEveryEntryOnce ==
    (\A t \in AuditTasks : audit_task[t].pc = "idle") =>
        /\ Len(audit_entries) < AuditFlushAt
        /\ \A e \in 1..(NextEntry - 1) : Copies(e) = 1

(***************************************************************************)
(* sandbox blocks of several tasks                                         *)
(***************************************************************************)
BlockIds == 1..MaxBlocks

\* a task enters a sandbox block
BlockEnter(i) ==
    /\ Len(sandbox_trace) < MaxBlockSteps
    /\ EnterSandboxCall(i)
    /\ sandbox_trace' = Append(sandbox_trace,
                               [op |-> "enter", id |-> i, before |-> sandbox_mode])

\* a task leaves its sandbox block, by return or by exception
BlockExit(i) ==
    /\ Len(sandbox_trace) < MaxBlockSteps
    /\ ExitSandboxCall(i)
    /\ sandbox_trace' = Append(sandbox_trace,
                               [op |-> "exit", id |-> i, before |-> sandbox_mode])

InitSandbox == StateInit /\ OrchIdle /\ CacheInit /\ GuardInit /\ audit_log = 0

NextSandbox ==
    \/ \E i \in BlockIds : BlockEnter(i)
    \/ \E i \in BlockIds : BlockExit(i)

SpecSandbox == InitSandbox /\ [][NextSandbox]_vars

\* the blocks open after the events, innermost last
RECURSIVE OpenBlocks(_)
OpenBlocks(tr) ==
    IF tr = <<>> THEN <<>>
    ELSE LET open == OpenBlocks(SubSeq(tr, 1, Len(tr) - 1))
             e    == tr[Len(tr)]
         IN  IF e.op = "enter" THEN Append(open, e.id)
             ELSE SelectSeq(open, LAMBDA b : b # e.id)

\* every exit left the block entered last among the open ones: the blocks
\* were sequential or properly nested
ProperlyNested(tr) ==
    \A n \in 1..Len(tr) :
       tr[n].op = "exit" =>
          LET open == OpenBlocks(SubSeq(tr, 1, n - 1))
          IN  open # <<>> /\ open[Len(open)] = tr[n].id

\* the position of the entry to the block the last event left
EntryOfLast(tr) ==
    CHOOSE m \in 1..Len(tr) :
       /\ tr[m].op = "enter" /\ tr[m].id = tr[Len(tr)].id
       /\ \A k \in (m + 1)..(Len(tr) - 1) : tr[k].id # tr[Len(tr)].id

\* C35: with sandbox blocks sequential or properly nested, sandbox_mode is
\* true after an entry, and after an exit it is what it was just before the
\* entry to the block left; inside any block it is true.
C35_BlockRestoresPriorMode ==
    (sandbox_trace # <<>> /\ ProperlyNested(sandbox_trace)) =>
        LET tr == sandbox_trace
        IN  /\ tr[Len(tr)].op = "enter" => sandbox_mode
            /\ tr[Len(tr)].op = "exit" => sandbox_mode = tr[EntryOfLast(tr)].before
            /\ OpenBlocks(tr) # <<>> => sandbox_mode

\* two nested blocks, entered with sandbox_mode off, have been left: the
\* inner exit kept it on and the outer exit switched it off again
C35_Witness ==
    /\ Len(sandbox_trace) = 4
    /\ [n \in 1..4 |-> sandbox_trace[n].op] = <<"enter", "enter", "exit", "exit">>
    /\ [n \in 1..4 |-> sandbox_trace[n].id] = <<1, 2, 2, 1>>
    /\ [n \in 1..4 |-> sandbox_trace[n].before] = <<FALSE, TRUE, TRUE, TRUE>>
    /\ ~sandbox_mode

\* C36: while some sandbox block is open, sandbox_mode is true, also when
\* the blocks of different tasks overlap without being nested.
C36_OpenBlockKeepsSandboxOn ==
    (\E i \in BlockIds : sandbox_contexts[i].entered) => sandbox_mode

\* the step is the return of a validate_action call that asked for permission
PermissionAsked ==
    /\ verdict'.returned /\ verdict'.asked
    /\ validate_calls' # validate_calls \/ validating # "none"

\* C37: a request for permission made less than the window after the cached
\* decision for the same key gets that decision and leaves the cache as it
\* is; a request with no cached decision, or one made the window or more
\* after it, is decided afresh (granted exactly when sandbox_mode is off) and
\* the new decision with the time of the request replaces the cached one.
C37_ConfirmationReusedWithinWindow ==
    [][PermissionAsked =>
         LET name == verdict'.action
         IN  IF /\ name \in DOMAIN confirmation_cache
                /\ now - confirmation_cache[name].time < ConfirmWindow
             THEN /\ verdict'.allowed = confirmation_cache[name].result
                  /\ confirmation_cache' = confirmation_cache
             ELSE /\ verdict'.allowed = ~sandbox_mode
                  /\ confirmation_cache'[name] = [result |-> ~sandbox_mode, time |-> now]
                  /\ \A k \in DOMAIN confirmation_cache \ {name} :
                        confirmation_cache'[k] = confirmation_cache[k]]_vars

\* a decision granted and cached was found exactly the window later, in
\* sandbox mode: the request was decided afresh, denied, and the cache holds
\* the new decision
C37_Witness ==
    /\ verdict.returned /\ verdict.asked
    /\ verdict.found = [hit |-> TRUE, result |-> TRUE, age |-> ConfirmWindow]
    /\ ~verdict.allowed
    /\ confirmation_cache[verdict.action] = [result |-> FALSE, time |-> now]

\* C38: a validate_action that found sandbox_mode true did not allow an
\* action whose category requires confirmation, whatever decision the
\* confirmation cache held from the time sandbox_mode was off.
C38_SandboxNeverAllowsConfirmable ==
    (/\ verdict.returned
     /\ verdict.sandbox
     /\ RequiresConfirmation(ActionTable[verdict.action]))
        => ~verdict.allowed

(***************************************************************************)
(* the operation history                                                   *)
(***************************************************************************)
\* the key of save_operation_history: "history/" and the clock at one-second
\* resolution; a tick of the model's clock is a change of that second (or more)
HistoryKey(t) == "history/" \o ToString(t)

\* the results passed in the next call, numbered from the ones passed before
RECURSIVE Flatten(_)
Flatten(lists) == IF lists = <<>> THEN <<>> ELSE lists[1] \o Flatten(Tail(lists))

NextBatch(size) == [i \in 1..size |-> Len(Flatten(history_saved)) + i]

\* save_operation_history(operations): save_state under the key of the clock
SaveOperationHistory(size) ==
    /\ Len(history_saved) < MaxSaves
    /\ LET batch == NextBatch(size)
       IN  /\ store' = StoreAfterSave(store, now, current_transaction, HistoryKey(now), batch)
           /\ current_transaction' = TxnAfterSave(current_transaction, HistoryKey(now), batch)
           /\ direct' = DirectAfterSave(direct, current_transaction, HistoryKey(now), batch)
           /\ history_saved' = Append(history_saved, batch)
    /\ sm_error' = "none"
    /\ last_call' = Called("save", 0)
    /\ UNCHANGED <<persisted, snapshots, now, txn_count, view_at, history_read, commit_base>>
    /\ UNCHANGED <<orchVars, cacheVars, guardVars>>
    /\ UNCHANGED taskVars

\* the times whose history key is in the store, latest first (the keys sorted
\* in reverse)
RECURSIVE Descending(_)
Descending(times) ==
    IF times = {} THEN <<>>
    ELSE LET m == CHOOSE t \in times : \A u \in times : u <= t
         IN  <<m>> \o Descending(times \ {m})

HistoryTimes(s) == Descending({t \in 0..MaxTime : HistoryKey(t) \in DOMAIN s})

\* the loop of get_operation_history over the keys: load_state of each (None
\* for a key whose entry has expired), the data that is not None appended
RECURSIVE LoadedHistory(_, _, _)
LoadedHistory(s, t, times) ==
    IF times = <<>> THEN <<>>
    ELSE LET k == HistoryKey(times[1])
         IN  (IF k \notin DOMAIN s \/ Expired(s, t, k) THEN <<>> ELSE s[k].value)
             \o LoadedHistory(s, t, Tail(times))

Take(seq, n) == SubSeq(seq, 1, Min(n, Len(seq)))

\* get_operation_history(limit)
GetOperationHistory(limit) ==
    LET times == Take(HistoryTimes(store), limit)
    IN  /\ history_read' = [returned |-> TRUE, limit |-> limit,
                            list |-> Take(LoadedHistory(store, now, times), limit)]
        /\ store' = [k \in {x \in DOMAIN store :
                              ~(Expired(store, now, x)
                                /\ \E i \in 1..Len(times) : x = HistoryKey(times[i]))}
                        |-> store[k]]
        /\ sm_error' = "none"
        /\ last_call' = Called("history", 0)
        /\ UNCHANGED <<persisted, snapshots, now, current_transaction, txn_count, view_at,
                       direct, history_saved, commit_base>>
        /\ UNCHANGED <<orchVars, cacheVars, guardVars>>
        /\ UNCHANGED taskVars

InitHistory == StateInit /\ OrchIdle /\ CacheInit /\ GuardIdle

NextHistory ==
    \/ \E size \in 1..MaxBatch : SaveOperationHistory(size)
    \/ \E limit \in 1..MaxLimit : GetOperationHistory(limit)
    \/ Tick

SpecHistory == InitHistory /\ [][NextHistory]_vars

\* every result passed so far, the lists of later calls first
RECURSIVE LatestFirst(_)
LatestFirst(lists) ==
    IF lists = <<>> THEN <<>>
    ELSE lists[Len(lists)] \o LatestFirst(SubSeq(lists, 1, Len(lists) - 1))

\* C39: get_operation_history(limit) returns the first `limit` of all the
\* results passed to the save_operation_history calls made before it, the
\* results of later calls first: no save removes or replaces what an earlier
\* one stored, two saves within one clock second included.
C39_HistoryIsAppendOnly ==
    [][history_read' # history_read =>
          history_read'.list = Take(LatestFirst(history_saved), history_read'.limit)]_vars

(***************************************************************************)
(* commit_transaction with a store write that fails                        *)
(***************************************************************************)
\* the calls of the one task, made while no commit_transaction is under way
CommitSave(k, v) == ~commit_task.active /\ TxnSaveState(k, v)

CommitBegin == ~commit_task.active /\ TxnBegin

\* the store call of the suspended commit raises (FileStateStore.set logs the
\* error of the write and raises it again): the exception leaves the loop and
\* commit_transaction; the write is not in the store
CommitStepFails ==
    /\ commit_task.active
    /\ CommitList[commit_task.pos][1] = "set"
    /\ commit_task' = NoCommit
    /\ commit_base' = EmptyStore
    /\ sm_error' = "OSError"
    /\ last_call' = Called("resume", commit_task.id)
    /\ UNCHANGED <<store, persisted, snapshots, now, current_transaction, txn_count,
                   view_at, direct, open_ids, history_saved, history_read>>
    /\ UNCHANGED <<orchVars, cacheVars, guardVars>>

InitCommit == StateInit /\ OrchIdle /\ CacheInit /\ GuardIdle

NextCommit ==
    \/ \E k \in Keys, v \in Values \ {"None"} : CommitSave(k, v)
    \/ CommitBegin
    \/ \E id \in BegunIds : CommitStart(id)
    \/ CommitStep
    \/ CommitStepFails

SpecCommit == InitCommit /\ [][NextCommit]_vars

\* C40: when a queued write of commit_transaction fails, the store is as the
\* commit found it (no queued write stays applied) and the transaction is
\* still the current one, not committed.
C40_CommitIsAllOrNothing ==
    [][(commit_task.active /\ sm_error' = "OSError") =>
          /\ store' = commit_base
          /\ current_transaction' = current_transaction
          /\ current_transaction'.open]_vars

====
